---- MODULE Spec2Model ----
(***************************************************************************)
(* Verification model of the rigour structural engines:                    *)
(*   - PatternIndexer.buildIndex / updateIndex   (pattern-index/indexer.ts) *)
(*   - ASTGate.run / analyzeSourceFile           (gates/ast.ts)             *)
(*   - OverrideManager                           (pattern-index/overrides)  *)
(*   - StalenessDetector                         (pattern-index/staleness)  *)
(*   - runLoop                                   (rigour-cli commands/run)  *)
(*   - initCommand                               (rigour-cli commands/init) *)
(*   - getPipeline / generateEmbedding           (embedding service)        *)
(* Each has its own specifications: Spec, SpecEmbed, SpecAgree and         *)
(* SpecPool (indexer), SpecExtract, SpecFind and SpecDetect                *)
(* (extractPatterns, findFiles, detectFunctionType), SpecAst and           *)
(* SpecAstRun (AST gate), SpecOvr, SpecTwo, SpecLookup, SpecSpecial and    *)
(* SpecInline (override ledger), SpecStale (staleness), SpecRun and        *)
(* SpecRunFair (run loop), SpecSetup (init), SpecPipe (pipeline).          *)
(***************************************************************************)
EXTENDS Integers, Sequences, FiniteSets, TLC

(***************************************************************************)
(* ------------------------------ helpers -------------------------------- *)
(***************************************************************************)

Range(s) == { s[k] : k \in 1..Len(s) }

Min(a, b) == IF a < b THEN a ELSE b

\* Concatenation of a sequence of sequences, in order.
RECURSIVE Flatten(_)
Flatten(ss) == IF ss = <<>> THEN <<>> ELSE Head(ss) \o Flatten(Tail(ss))

\* An ascending enumeration of a finite set of integers.
RECURSIVE SortedSeq(_)
SortedSeq(S) ==
    IF S = {} THEN <<>>
    ELSE LET m == CHOOSE x \in S : \A y \in S : x <= y
         IN  <<m>> \o SortedSeq(S \ {m})

(***************************************************************************)
(* ===================== PatternIndexer (indexer.ts) ===================== *)
(***************************************************************************)

\* Bounds of the indexer model.
NumFiles == 11      \* paths of the project; one more than a batch holds
MaxRuns == 2        \* index runs (buildIndex / updateIndex) per behaviour
MaxEdits == 1       \* changes made to the project's files per behaviour
MaxDecls == 2       \* declarations of the multi-declaration file

\* const BATCH_SIZE = 10 (buildIndex and updateIndex)
BATCH_SIZE == 10

Paths == 1..NumFiles

\* Path 1 carries the multi-declaration file; the other paths carry
\* one-declaration files, of which path 2 and the last path change.
RichPath == 1
PlainPaths == {2, NumFiles}

\* No file at the path.
Absent == [exists |-> FALSE]

\* A declaration as it stands in a source file: its name, a version of its
\* text, and the number of lines the text spans.
DeclName(k) == <<"decl", k>>
DeclTexts == { [ver |-> 0, lines |-> 1], [ver |-> 1, lines |-> 1], [ver |-> 1, lines |-> 2] }

Decl(k, t) == [name |-> DeclName(k), ver |-> t.ver, lines |-> t.lines]

\* The declarations of the multi-declaration file are named 1..MaxDecls and
\* stand in the file in that order; the other files hold one declaration.
DeclIds == 1..MaxDecls
PlainContent == <<Decl(1, [ver |-> 0, lines |-> 1])>>
InitialRichContent == [k \in 1..MaxDecls |-> Decl(k, [ver |-> 0, lines |-> 1])]

File(c, r) == [exists |-> TRUE, content |-> c, readable |-> r]

VARIABLES
    disk,           \* path -> Absent, or the file: its content, whether it can be read
    edits,          \* changes made to the files so far
    runs,           \* runs started so far; also the clock of the timestamps
    pc,             \* position of the orchestrator: "idle", "loop", "embed", "stats"
    mode,           \* "build" or "update"
    outcome,        \* how the last run ended: "none", "returned", "thrown"
    useEmbeddings,  \* config.useEmbeddings of the indexer of the current run
    files,          \* result of findFiles of the current run
    i,              \* loop index of the batch loop running
    patterns,       \* patterns / updatedPatterns
    refs,           \* refs[k]: the entry of existingIndex.patterns that patterns[k]
                    \* is (the same object), or 0 for an entry created in this run
    indexedFiles,   \* indexedFiles / updatedFiles
    extracted,      \* paths extractPatterns was invoked for in the current run
    existingIndex,  \* the argument of updateIndex (the caller's object)
    priorIndex,     \* value of existingIndex at the call
    priorDisk,      \* file contents at the time of the run that built priorIndex
    returned,       \* the catalog returned by the last completed run
    returnedDisk    \* file contents at the time of the run that built returned

ixvars == << disk, edits, runs, pc, mode, outcome, useEmbeddings, files, i,
             patterns, refs, indexedFiles, extracted, existingIndex, priorIndex,
             priorDisk, returned, returnedDisk >>

\* State of the AST gate (gates/ast.ts).
VARIABLES
    astConfig,      \* this.config.ast: complexity, max_methods, max_params
    astPc,          \* "idle", "analyzed", "running", "returned", "thrown"
    shape,          \* the source file analyzeSourceFile was last applied to
    failures,       \* the failures array
    project,        \* the files globby enumerates in ASTGate.run, in order
    cursor,         \* files of the project the loop of run has passed
    reads           \* reads[k]: times file k of the project was read in the run

astvars == << astConfig, astPc, shape, failures, project, cursor, reads >>

\* State of the override manager (pattern-index/overrides.ts).
VARIABLES
    overrides,      \* this.overrides
    ledger,         \* the overrides stored in .rigour/allow.json, or NoLedger
    now,            \* the current time, in days
    ticks,          \* times the clock advanced
    ops,            \* operations of the manager called so far
    lastOp          \* the last operation called, and the pattern it was given

ovrvars == << overrides, ledger, now, ticks, ops, lastOp >>

\* A call of an operation that changes no state, and what it returned.
VARIABLES
    call,           \* the operation called and its arguments
    result          \* what the call returned

\* State of the staleness detector (pattern-index/staleness.ts) and of the run
\* loop (rigour-cli commands/run.ts).
VARIABLES
    detector,       \* the detector: its deprecation rules and the project's dependencies
    loop            \* runLoop: its position, iteration, option, and what it has run

\* State of initCommand, of the tasks of one indexing batch, of a second
\* override manager on the same ledger, and of the embedding pipeline.
VARIABLES
    setup,          \* initCommand: its position and the files of the directory
    pool,           \* the batch loop of the indexer: its tasks and collections
    other,          \* a second OverrideManager: what it holds in memory
    pipe            \* the embedding pipeline and the calls that use it

morevars == << setup, pool, other, pipe >>

callvars == << call, result, detector, loop, morevars >>

vars == << ixvars, astvars, ovrvars, callvars >>

INDEX_VERSION == "1.0.0"

NoIndex == [version |-> "none", lastUpdated |-> 0, patterns |-> <<>>, files |-> <<>>,
            stats |-> [totalPatterns |-> 0, totalFiles |-> 0, byType |-> [k \in {} |-> 0]]]

\* hashContent: SHA-256 of the text, first 16 hex digits. Distinct texts of
\* the model have distinct digests.
hashContent(content) == <<"sha256", content>>

\* findFiles: the files globby enumerates, in path order.
findFiles == SortedSeq({ p \in Paths : disk[p].exists })

\* 1-based line at which declaration k of a file starts.
RECURSIVE StartLine(_, _)
StartLine(content, k) ==
    IF k = 1 THEN 1 ELSE StartLine(content, k - 1) + content[k - 1].lines

NoEmbedding == <<"undefined">>
EmptyVector == <<>>

\* The kind of the declaration: those of odd number are functions, those of
\* even number classes.
PatternTypes == {"function", "class"}
DeclType(name) == IF name[2] % 2 = 1 THEN "function" ELSE "class"

\* A variant of createPatternEntry whose content hash also covers the position.
createPatternEntryHashingLine(file, d, line, at) ==
    [ id |-> hashContent(<<file, d.name, line>>),
      type |-> DeclType(d.name),
      name |-> d.name,
      file |-> file,
      line |-> line,
      endLine |-> line + d.lines - 1,
      hash |-> hashContent(<<d.name, d.ver, d.lines, line>>),
      indexedAt |-> at,
      embedding |-> NoEmbedding ]

\* createPatternEntry: id from file, name and line; hash from the text.
createPatternEntry(file, d, line, at) ==
    [ id |-> hashContent(<<file, d.name, line>>),
      type |-> DeclType(d.name),
      name |-> d.name,
      file |-> file,
      line |-> line,
      endLine |-> line + d.lines - 1,
      hash |-> hashContent(<<d.name, d.ver, d.lines>>),
      indexedAt |-> at,
      embedding |-> NoEmbedding ]

\* extractPatterns: one entry per declaration of the file, in source order.
extractPatterns(file, content, at) ==
    [ k \in 1..Len(content) |-> createPatternEntry(file, content[k], StartLine(content, k), at) ]

\* A variant of generateEmbedding that resolves to undefined when it fails.
generateEmbeddingUndefined(text, fails) == IF fails THEN NoEmbedding ELSE <<"vec", text>>

\* generateEmbedding: the vector of the text, or the empty vector when the
\* pipeline or the extractor throws (caught inside).
generateEmbedding(text, fails) == IF fails THEN EmptyVector ELSE <<"vec", text>>

\* The declarations whose embedding fails in one batch: none, or those of
\* one name.
NoFailure == {}
FailureSets == {{}} \cup { {DeclName(k)} : k \in DeclIds }

\* A variant of calculateStats that takes the number of files for the number
\* of patterns.
calculateStatsCountingFiles(ps, fs) ==
    [totalPatterns |-> Len(fs), totalFiles |-> Len(fs),
     byType |-> [k \in { ps[n].type : n \in DOMAIN ps } |->
                   Cardinality({ n \in DOMAIN ps : ps[n].type = k })]]

\* calculateStats: byType holds a count for the types that occur.
calculateStats(ps, fs) ==
    [totalPatterns |-> Len(ps), totalFiles |-> Len(fs),
     byType |-> [k \in { ps[n].type : n \in DOMAIN ps } |->
                   Cardinality({ n \in DOMAIN ps : ps[n].type = k })]]

\* The fileInfo record of a file indexed in this run.
fileInfo(p, content, n, at) ==
    [path |-> p, hash |-> hashContent(content), patternCount |-> n, indexedAt |-> at]

\* Mutant of Batch: a batch takes one file more than BATCH_SIZE.
BatchOneMore(fs, k) == SubSeq(fs, k + 1, Min(k + BATCH_SIZE + 1, Len(fs)))

\* The batch the loop is about to process: files.slice(i, i + BATCH_SIZE).
Batch(fs, k) == SubSeq(fs, k + 1, Min(k + BATCH_SIZE, Len(fs)))

\* Outcome of the per-file task of buildIndex: the file's patterns and
\* fileInfo, or null when reading or extracting throws (caught in the task).
Null == [null |-> TRUE]
buildTask(p, at) ==
    IF ~disk[p].readable THEN Null
    ELSE LET ps == extractPatterns(p, disk[p].content, at)
         IN  [patterns |-> ps, refs |-> [k \in 1..Len(ps) |-> 0],
              fileInfo |-> fileInfo(p, disk[p].content, Len(ps), at), extracted |-> TRUE]

\* existingFileMap.get(relativePath): the last File Record of that path.
existingFile(ix, p) ==
    LET ks == { k \in 1..Len(ix.files) : ix.files[k].path = p }
    IN  IF ks = {} THEN Null ELSE ix.files[CHOOSE k \in ks : \A m \in ks : m <= k]

\* Positions of existingIndex.patterns.filter(p => p.file === relativePath).
existingPatterns(ix, p) ==
    SortedSeq({ k \in 1..Len(ix.patterns) : ix.patterns[k].file = p })

\* Outcome of the per-file task of updateIndex; Rejected when reading or
\* extracting throws (nothing catches it in the task).
Rejected == [rejected |-> TRUE]

\* A variant of updateTask that keeps the existing patterns of every file the
\* existing index knows, whatever its hash.
updateTaskByPathOnly(ix, p, at) ==
    IF ~disk[p].readable THEN Rejected
    ELSE LET ef == existingFile(ix, p)
         IN  IF ef # Null
             THEN LET ks == existingPatterns(ix, p)
                  IN  [patterns |-> [k \in 1..Len(ks) |-> ix.patterns[ks[k]]],
                       refs |-> ks, fileInfo |-> ef, extracted |-> FALSE]
             ELSE LET ps == extractPatterns(p, disk[p].content, at)
                  IN  [patterns |-> ps, refs |-> [k \in 1..Len(ps) |-> 0],
                       fileInfo |-> fileInfo(p, disk[p].content, Len(ps), at),
                       extracted |-> TRUE]

updateTask(ix, p, at) ==
    IF ~disk[p].readable THEN Rejected
    ELSE LET ef == existingFile(ix, p)
         IN  IF ef # Null /\ ef.hash = hashContent(disk[p].content)
             THEN LET ks == existingPatterns(ix, p)
                  IN  [patterns |-> [k \in 1..Len(ks) |-> ix.patterns[ks[k]]],
                       refs |-> ks, fileInfo |-> ef, extracted |-> FALSE]
             ELSE LET ps == extractPatterns(p, disk[p].content, at)
                  IN  [patterns |-> ps, refs |-> [k \in 1..Len(ps) |-> 0],
                       fileInfo |-> fileInfo(p, disk[p].content, Len(ps), at),
                       extracted |-> TRUE]

\* The results of a batch that are appended: for (const result of results) if (result).
Kept(rs) == SelectSeq(rs, LAMBDA r : r # Null)

IxInit ==
    /\ \E n \in {MaxDecls - 1, MaxDecls} : \E last \in BOOLEAN :
         disk = [ p \in Paths |->
                    IF p = RichPath THEN File(SubSeq(InitialRichContent, 1, n), TRUE)
                    ELSE IF p = NumFiles /\ ~last THEN Absent
                    ELSE File(PlainContent, TRUE) ]
    /\ edits = 0 /\ runs = 0 /\ pc = "idle" /\ mode = "build" /\ outcome = "none"
    /\ useEmbeddings = FALSE /\ files = <<>> /\ i = 0
    /\ patterns = <<>> /\ refs = <<>> /\ indexedFiles = <<>> /\ extracted = {}
    /\ existingIndex = NoIndex /\ priorIndex = NoIndex
    /\ priorDisk = [p \in Paths |-> Absent]
    /\ returned = NoIndex /\ returnedDisk = [p \in Paths |-> Absent]

\* Position at which a declaration named n is inserted into a file.
InsertAt(content, n) ==
    1 + Cardinality({ k \in 1..Len(content) : content[k].name[2] < n })

\* The project changes between two runs: the text of one declaration of the
\* multi-declaration file is edited.
EditDecl(k, t) ==
    /\ pc = "idle" /\ edits < MaxEdits
    /\ disk[RichPath].exists /\ k \in 1..Len(disk[RichPath].content)
    /\ LET d == disk[RichPath].content[k]
       IN  /\ [ver |-> d.ver, lines |-> d.lines] # t
           /\ disk' = [disk EXCEPT ![RichPath].content[k] = [d EXCEPT !.ver = t.ver, !.lines = t.lines]]
    /\ edits' = edits + 1
    /\ UNCHANGED << astvars, ovrvars, callvars >>
    /\ UNCHANGED << runs, pc, mode, outcome, useEmbeddings, files, i, patterns,
                    refs, indexedFiles, extracted, existingIndex, priorIndex, priorDisk,
                    returned, returnedDisk >>

\* A declaration is added to the multi-declaration file.
AddDecl(n) ==
    /\ pc = "idle" /\ edits < MaxEdits
    /\ disk[RichPath].exists
    /\ LET c == disk[RichPath].content
           at == InsertAt(c, n)
       IN  /\ \A k \in 1..Len(c) : c[k].name # DeclName(n)
           /\ disk' = [disk EXCEPT ![RichPath].content =
                         SubSeq(c, 1, at - 1) \o <<Decl(n, [ver |-> 0, lines |-> 1])>>
                           \o SubSeq(c, at, Len(c))]
    /\ edits' = edits + 1
    /\ UNCHANGED << astvars, ovrvars, callvars >>
    /\ UNCHANGED << runs, pc, mode, outcome, useEmbeddings, files, i, patterns,
                    refs, indexedFiles, extracted, existingIndex, priorIndex, priorDisk,
                    returned, returnedDisk >>

\* A declaration is removed from the multi-declaration file.
RemoveDecl(k) ==
    /\ pc = "idle" /\ edits < MaxEdits
    /\ disk[RichPath].exists /\ k \in 1..Len(disk[RichPath].content)
    /\ LET c == disk[RichPath].content
       IN  disk' = [disk EXCEPT ![RichPath].content = SubSeq(c, 1, k - 1) \o SubSeq(c, k + 1, Len(c))]
    /\ edits' = edits + 1
    /\ UNCHANGED << astvars, ovrvars, callvars >>
    /\ UNCHANGED << runs, pc, mode, outcome, useEmbeddings, files, i, patterns,
                    refs, indexedFiles, extracted, existingIndex, priorIndex, priorDisk,
                    returned, returnedDisk >>

\* A file that was deleted is created again.
CreateFile(p) ==
    /\ pc = "idle" /\ edits < MaxEdits
    /\ p \in {RichPath} \cup PlainPaths /\ ~disk[p].exists
    /\ disk' = [disk EXCEPT ![p] =
                  File(IF p = RichPath THEN InitialRichContent ELSE PlainContent, TRUE)]
    /\ edits' = edits + 1
    /\ UNCHANGED << astvars, ovrvars, callvars >>
    /\ UNCHANGED << runs, pc, mode, outcome, useEmbeddings, files, i, patterns,
                    refs, indexedFiles, extracted, existingIndex, priorIndex, priorDisk,
                    returned, returnedDisk >>

\* A file is deleted.
DeleteFile(p) ==
    /\ pc = "idle" /\ edits < MaxEdits
    /\ p \in {RichPath} \cup PlainPaths /\ disk[p].exists
    /\ disk' = [disk EXCEPT ![p] = Absent]
    /\ edits' = edits + 1
    /\ UNCHANGED << astvars, ovrvars, callvars >>
    /\ UNCHANGED << runs, pc, mode, outcome, useEmbeddings, files, i, patterns,
                    refs, indexedFiles, extracted, existingIndex, priorIndex, priorDisk,
                    returned, returnedDisk >>

\* A file becomes unreadable (fs.readFile on it throws).
BreakFile(p) ==
    /\ pc = "idle" /\ edits < MaxEdits
    /\ p \in PlainPaths /\ disk[p].exists /\ disk[p].readable
    /\ disk' = [disk EXCEPT ![p].readable = FALSE]
    /\ edits' = edits + 1
    /\ UNCHANGED << astvars, ovrvars, callvars >>
    /\ UNCHANGED << runs, pc, mode, outcome, useEmbeddings, files, i, patterns,
                    refs, indexedFiles, extracted, existingIndex, priorIndex, priorDisk,
                    returned, returnedDisk >>

\* buildIndex up to its batch loop (lines 51-60).
BuildStart(emb) ==
    /\ pc = "idle" /\ runs < MaxRuns
    /\ runs' = runs + 1 /\ mode' = "build" /\ useEmbeddings' = emb
    /\ files' = findFiles /\ i' = 0
    /\ patterns' = <<>> /\ refs' = <<>> /\ indexedFiles' = <<>> /\ extracted' = {}
    /\ existingIndex' = NoIndex /\ priorIndex' = NoIndex
    /\ priorDisk' = [p \in Paths |-> Absent]
    /\ pc' = "loop" /\ outcome' = "none"
    /\ UNCHANGED << astvars, ovrvars, callvars >>
    /\ UNCHANGED << disk, edits, returned, returnedDisk >>

\* A variant of UpdateStart that carries over the entries of the files that are
\* no longer enumerated.
UpdateStartKeepingGone(emb) ==
    /\ pc = "idle" /\ runs < MaxRuns /\ returned # NoIndex
    /\ runs' = runs + 1 /\ mode' = "update" /\ useEmbeddings' = emb
    /\ files' = findFiles /\ i' = 0
    /\ patterns' = SelectSeq(returned.patterns, LAMBDA r : ~disk[r.file].exists)
    /\ refs' = [k \in 1..Len(patterns') |-> 0]
    /\ indexedFiles' = SelectSeq(returned.files, LAMBDA f : ~disk[f.path].exists)
    /\ extracted' = {}
    /\ existingIndex' = returned /\ priorIndex' = returned
    /\ priorDisk' = returnedDisk
    /\ pc' = "loop" /\ outcome' = "none"
    /\ UNCHANGED << astvars, ovrvars, callvars >>
    /\ UNCHANGED << disk, edits, returned, returnedDisk >>

\* updateIndex(existingIndex) up to its batch loop (lines 124-137), called
\* with the catalog the last run returned.
UpdateStart(emb) ==
    /\ pc = "idle" /\ runs < MaxRuns /\ returned # NoIndex
    /\ runs' = runs + 1 /\ mode' = "update" /\ useEmbeddings' = emb
    /\ files' = findFiles /\ i' = 0
    /\ patterns' = <<>> /\ refs' = <<>> /\ indexedFiles' = <<>> /\ extracted' = {}
    /\ existingIndex' = returned /\ priorIndex' = returned
    /\ priorDisk' = returnedDisk
    /\ pc' = "loop" /\ outcome' = "none"
    /\ UNCHANGED << astvars, ovrvars, callvars >>
    /\ UNCHANGED << disk, edits, returned, returnedDisk >>

\* One iteration of the batch loop of buildIndex (lines 62-93): the tasks of
\* the batch all settle, then their results are appended in batch order.
BuildBatch ==
    /\ pc = "loop" /\ mode = "build" /\ i < Len(files)
    /\ LET batch == Batch(files, i)
           rs == Kept([k \in 1..Len(batch) |-> buildTask(batch[k], runs)])
       IN  /\ patterns' = patterns \o Flatten([k \in 1..Len(rs) |-> rs[k].patterns])
           /\ refs' = refs \o Flatten([k \in 1..Len(rs) |-> rs[k].refs])
           /\ indexedFiles' = indexedFiles \o [k \in 1..Len(rs) |-> rs[k].fileInfo]
           /\ extracted' = extracted \cup { rs[k].fileInfo.path : k \in 1..Len(rs) }
    /\ i' = i + BATCH_SIZE
    /\ UNCHANGED << astvars, ovrvars, callvars >>
    /\ UNCHANGED << disk, edits, runs, pc, mode, outcome, useEmbeddings, files,
                    existingIndex, priorIndex, priorDisk, returned, returnedDisk >>

\* One iteration of the batch loop of updateIndex (lines 138-172) in which
\* every task fulfils.
UpdateBatch ==
    /\ pc = "loop" /\ mode = "update" /\ i < Len(files)
    /\ LET batch == Batch(files, i)
           rs == [k \in 1..Len(batch) |-> updateTask(existingIndex, batch[k], runs)]
       IN  /\ \A k \in 1..Len(rs) : rs[k] # Rejected
           /\ patterns' = patterns \o Flatten([k \in 1..Len(rs) |-> rs[k].patterns])
           /\ refs' = refs \o Flatten([k \in 1..Len(rs) |-> rs[k].refs])
           /\ indexedFiles' = indexedFiles \o [k \in 1..Len(rs) |-> rs[k].fileInfo]
           /\ extracted' = extracted \cup
                             { rs[k].fileInfo.path : k \in { m \in 1..Len(rs) : rs[m].extracted } }
    /\ i' = i + BATCH_SIZE
    /\ UNCHANGED << astvars, ovrvars, callvars >>
    /\ UNCHANGED << disk, edits, runs, pc, mode, outcome, useEmbeddings, files,
                    existingIndex, priorIndex, priorDisk, returned, returnedDisk >>

\* An iteration of the batch loop of updateIndex in which a task rejects:
\* Promise.all rejects, nothing catches it, updateIndex rejects.
UpdateThrow ==
    /\ pc = "loop" /\ mode = "update" /\ i < Len(files)
    /\ LET batch == Batch(files, i)
       IN  \E k \in 1..Len(batch) : updateTask(existingIndex, batch[k], runs) = Rejected
    /\ pc' = "idle" /\ outcome' = "thrown"
    /\ UNCHANGED << astvars, ovrvars, callvars >>
    /\ UNCHANGED << disk, edits, runs, mode, useEmbeddings, files, i, patterns,
                    refs, indexedFiles, extracted, existingIndex, priorIndex, priorDisk,
                    returned, returnedDisk >>

\* The batch loop ends (lines 95-96 / 174-175).
LoopExit ==
    /\ pc = "loop" /\ i >= Len(files)
    /\ pc' = IF useEmbeddings /\ Len(patterns) > 0 THEN "embed" ELSE "stats"
    /\ i' = 0
    /\ UNCHANGED << astvars, ovrvars, callvars >>
    /\ UNCHANGED << disk, edits, runs, mode, outcome, useEmbeddings, files,
                    patterns, refs, indexedFiles, extracted, existingIndex, priorIndex,
                    priorDisk, returned, returnedDisk >>

\* Whether the embedding stage writes pattern.embedding of an entry: always in
\* buildIndex, if (!pattern.embedding) in updateIndex (an empty vector is truthy).
embedsEntry(m, pat) == m = "build" \/ pat.embedding = NoEmbedding

embedded(m, pat, bad) ==
    IF embedsEntry(m, pat)
    THEN [pat EXCEPT !.embedding = generateEmbedding(<<pat.name>>, pat.name \in bad)]
    ELSE pat

\* One iteration of the embedding loop (lines 98-103 / 176-183). An entry
\* taken over from existingIndex is the same object there.
EmbedBatch(bad) ==
    /\ pc = "embed" /\ i < Len(patterns)
    /\ LET hi == Min(i + BATCH_SIZE, Len(patterns))
           new == [k \in 1..Len(patterns) |->
                     IF k > i /\ k <= hi THEN embedded(mode, patterns[k], bad) ELSE patterns[k]]
       IN  /\ patterns' = new
           /\ existingIndex' =
                [existingIndex EXCEPT !.patterns =
                   [r \in 1..Len(existingIndex.patterns) |->
                      IF \E k \in (i + 1)..hi : refs[k] = r
                      THEN new[CHOOSE k \in (i + 1)..hi : refs[k] = r]
                      ELSE existingIndex.patterns[r]]]
    /\ i' = i + BATCH_SIZE
    /\ UNCHANGED << astvars, ovrvars, callvars >>
    /\ UNCHANGED << disk, edits, runs, pc, mode, outcome, useEmbeddings, files,
                    refs, indexedFiles, extracted, priorIndex, priorDisk, returned,
                    returnedDisk >>

EmbedExit ==
    /\ pc = "embed" /\ i >= Len(patterns)
    /\ pc' = "stats"
    /\ UNCHANGED << astvars, ovrvars, callvars >>
    /\ UNCHANGED << disk, edits, runs, mode, outcome, useEmbeddings, files, i,
                    patterns, refs, indexedFiles, extracted, existingIndex, priorIndex,
                    priorDisk, returned, returnedDisk >>

\* calculateStats and the return of the catalog (lines 106-118 / 186-196).
Return ==
    /\ pc = "stats"
    /\ returned' = [version |-> INDEX_VERSION, lastUpdated |-> runs,
                    patterns |-> patterns, files |-> indexedFiles,
                    stats |-> calculateStats(patterns, indexedFiles)]
    /\ returnedDisk' = disk
    /\ pc' = "idle" /\ outcome' = "returned"
    /\ UNCHANGED << astvars, ovrvars, callvars >>
    /\ UNCHANGED << disk, edits, runs, mode, useEmbeddings, files, i, patterns,
                    refs, indexedFiles, extracted, existingIndex, priorIndex, priorDisk >>

IxNext ==
    \/ \E k \in DeclIds : \E t \in DeclTexts : EditDecl(k, t)
    \/ \E n \in DeclIds : AddDecl(n)
    \/ \E k \in DeclIds : RemoveDecl(k)
    \/ \E p \in Paths : CreateFile(p)
    \/ \E p \in Paths : DeleteFile(p)
    \/ \E p \in Paths : BreakFile(p)
    \/ \E emb \in BOOLEAN : BuildStart(emb)
    \/ \E emb \in BOOLEAN : UpdateStart(emb)
    \/ BuildBatch
    \/ UpdateBatch
    \/ UpdateThrow
    \/ LoopExit
    \/ EmbedBatch(NoFailure)
    \/ EmbedExit
    \/ Return

\* The runs of an indexer without embeddings over a project whose files can
\* all be read.
AgreeNext ==
    \/ \E k \in DeclIds : \E t \in DeclTexts : EditDecl(k, t)
    \/ \E n \in DeclIds : AddDecl(n)
    \/ \E k \in DeclIds : RemoveDecl(k)
    \/ \E p \in Paths : CreateFile(p)
    \/ \E p \in Paths : DeleteFile(p)
    \/ BuildStart(FALSE)
    \/ UpdateStart(FALSE)
    \/ BuildBatch
    \/ UpdateBatch
    \/ LoopExit
    \/ Return

\* The runs of the indexer over an unchanging project, the embedding of any
\* declaration free to fail.
EmbedNext ==
    \/ \E emb \in BOOLEAN : BuildStart(emb)
    \/ \E emb \in BOOLEAN : UpdateStart(emb)
    \/ BuildBatch
    \/ UpdateBatch
    \/ LoopExit
    \/ \E bad \in FailureSets : EmbedBatch(bad)
    \/ EmbedExit
    \/ Return

(***************************************************************************)
(* ========================= ASTGate (gates/ast.ts) ====================== *)
(***************************************************************************)

\* Bounds of the gate model.
MaxParams == 6      \* parameters of a function
MaxBranches == 11   \* nodes of one kind in a function body
MaxMethods == 11    \* methods of a class
MaxThreshold == 2   \* largest threshold configured explicitly
MaxProject == 2     \* files of a project ASTGate.run walks

\* Syntax tree nodes: the SyntaxKind, the identifier or operator text a node
\* carries, and the children ts.forEachChild visits, in order.
Node(kind, kids) == [kind |-> kind, name |-> <<>>, op |-> "", kids |-> kids]
Named(kind, name, kids) == [kind |-> kind, name |-> name, op |-> "", kids |-> kids]
Binary(op, l, r) == [kind |-> "BinaryExpression", name |-> <<>>, op |-> op, kids |-> <<l, r>>]
Id == Node("Identifier", <<>>)

\* The constructs a function body of the model is made of.
BranchItems == {"if", "case", "default", "for", "for-in", "for-of", "while", "do",
                "ternary", "&&", "||"}
PlainItems == {"??", "+", "return", "catch"}
Items == BranchItems \cup PlainItems
ExprItems == {"ternary", "&&", "||", "??", "+"}

\* n expressions of one kind nested in one another.
RECURSIVE ExprChain(_, _)
ExprChain(item, n) ==
    IF n = 0 THEN Id
    ELSE IF item = "ternary"
         THEN Node("ConditionalExpression", <<Id, Id, ExprChain(item, n - 1)>>)
         ELSE Binary(item, Id, ExprChain(item, n - 1))

\* One statement of the kind, holding the statements inner.
Stmt(item, inner) ==
    CASE item = "if" -> Node("IfStatement", <<Id, Node("Block", inner)>>)
      [] item = "for" -> Node("ForStatement", <<Node("Block", inner)>>)
      [] item = "for-in" -> Node("ForInStatement", <<Id, Id, Node("Block", inner)>>)
      [] item = "for-of" -> Node("ForOfStatement", <<Id, Id, Node("Block", inner)>>)
      [] item = "while" -> Node("WhileStatement", <<Id, Node("Block", inner)>>)
      [] item = "do" -> Node("DoStatement", <<Node("Block", inner), Id>>)
      [] item = "case" ->
           Node("SwitchStatement", <<Id, Node("CaseBlock", <<Node("CaseClause", <<Id>> \o inner)>>)>>)
      [] item = "default" ->
           Node("SwitchStatement", <<Id, Node("CaseBlock", <<Node("DefaultClause", inner)>>)>>)
      [] item = "return" -> Node("ReturnStatement", inner)
      [] item = "catch" ->
           Node("TryStatement", <<Node("Block", <<>>), Node("CatchClause", <<Node("Block", inner)>>)>>)

RECURSIVE StmtChain(_, _)
StmtChain(item, n) == IF n = 0 THEN <<>> ELSE <<Stmt(item, StmtChain(item, n - 1))>>

\* The statements of a body with n constructs of one kind, side by side
\* ("flat") or nested in one another ("nested").
Statements(item, n, layout) ==
    IF item \in ExprItems
    THEN IF layout = "nested"
         THEN (IF n = 0 THEN <<>> ELSE <<Node("ExpressionStatement", <<ExprChain(item, n)>>)>>)
         ELSE [k \in 1..n |-> Node("ExpressionStatement", <<ExprChain(item, 1)>>)]
    ELSE IF layout = "nested" THEN StmtChain(item, n)
    ELSE IF item \in {"case", "default"}
    THEN (IF n = 0 THEN <<>>
          ELSE <<Node("SwitchStatement",
                      <<Id, Node("CaseBlock",
                                 [k \in 1..n |-> Node(IF item = "case" THEN "CaseClause"
                                                      ELSE "DefaultClause", <<>>)])>>)>>)
    ELSE [k \in 1..n |-> Stmt(item, <<>>)]

\* The syntactic forms of a function of the model.
FnForms == {"FunctionDeclaration", "MethodDeclaration", "ArrowFunction", "ArrowArgument",
            "FunctionExpression"}

FnName == <<"fn">>
ClassName == <<"Klass">>
MethodName(k) == <<"m", k>>

\* The parameters of a function: np Parameter nodes, the first with the
\* default value `a || b` when init is set.
Parameters(np, init) ==
    [k \in 1..np |->
       Node("Parameter", IF k = 1 /\ init THEN <<Id, Binary("||", Id, Id)>> ELSE <<Id>>)]

\* The function node of a form, with its parameters and the statements of its body.
FnNode(form, np, init, stmts) ==
    LET kids == Parameters(np, init) \o <<Node("Block", stmts)>>
    IN  CASE form = "FunctionDeclaration" -> Named("FunctionDeclaration", FnName, kids)
          [] form = "MethodDeclaration" -> Named("MethodDeclaration", FnName, kids)
          [] form \in {"ArrowFunction", "ArrowArgument"} -> Node("ArrowFunction", kids)
          [] form = "FunctionExpression" -> Node("FunctionExpression", kids)

\* The top-level statement that holds a function of the form.
Holder(form, fn) ==
    CASE form = "FunctionDeclaration" -> fn
      [] form = "MethodDeclaration" -> Named("ClassDeclaration", ClassName, <<fn>>)
      [] form = "ArrowArgument" ->
           Node("ExpressionStatement", <<Node("CallExpression", <<Id, fn>>)>>)
      [] form \in {"ArrowFunction", "FunctionExpression"} ->
           Node("VariableStatement",
                <<Node("VariableDeclarationList", <<Named("VariableDeclaration", FnName, <<fn>>)>>)>>)

NoInner == [item |-> "none", n |-> 0]
InnerName == <<"inner">>

\* The function of a function shape: one function of the form with np
\* parameters and a body of n constructs of the kind item, followed, when inner
\* is set, by a nested function declaration with a body of its own; and the
\* source file that holds it.
FunctionOf(sh) ==
    LET nested == IF sh.inner = NoInner THEN <<>>
                  ELSE <<Named("FunctionDeclaration", InnerName,
                               <<Node("Block", Statements(sh.inner.item, sh.inner.n, "flat"))>>)>>
    IN  FnNode(sh.form, sh.np, sh.init, Statements(sh.item, sh.n, sh.layout) \o nested)
FunctionFile(sh) == Node("SourceFile", <<Holder(sh.form, FunctionOf(sh))>>)

\* Source file of a class shape: a class declaration with m trivial methods,
\* and a constructor and a property when extra is set.
ClassFile(sh) ==
    LET methods == [k \in 1..sh.m |-> Named("MethodDeclaration", MethodName(k), <<Node("Block", <<>>)>>)]
        others == IF sh.extra
                  THEN <<Node("PropertyDeclaration", <<Id>>), Node("Constructor", <<Node("Block", <<>>)>>)>>
                  ELSE <<>>
    IN  Node("SourceFile",
             <<Named("ClassDeclaration", IF sh.named THEN ClassName ELSE <<>>, others \o methods)>>)

\* The syntax tree ts.createSourceFile yields for a file of the model.
Tree(sh) == IF sh.file = "function" THEN FunctionFile(sh) ELSE ClassFile(sh)

\* The source files of the model.
FunctionShapes ==
    { [file |-> "function", form |-> f, np |-> np, init |-> init, item |-> it, n |-> n,
       layout |-> "flat", inner |-> NoInner] :
         f \in FnForms, np \in {0, MaxParams - 1, MaxParams}, init \in {FALSE},
         it \in Items, n \in 0..MaxBranches }
ParameterShapes ==
    { [file |-> "function", form |-> f, np |-> np, init |-> init, item |-> "return", n |-> 0,
       layout |-> "flat", inner |-> NoInner] :
         f \in FnForms, np \in 0..MaxParams, init \in BOOLEAN }
NestedLayoutShapes ==
    { [file |-> "function", form |-> "FunctionDeclaration", np |-> 0, init |-> FALSE,
       item |-> it, n |-> n, layout |-> "nested", inner |-> NoInner] :
         it \in Items, n \in 0..MaxBranches }
NestedFunctionShapes ==
    { [file |-> "function", form |-> f, np |-> 0, init |-> FALSE, item |-> "if", n |-> n,
       layout |-> "flat", inner |-> [item |-> it, n |-> m]] :
         f \in {"FunctionDeclaration", "ArrowFunction"}, n \in {0, 1, MaxBranches - 1},
         it \in {"if", "&&", "return"}, m \in {0, 1, MaxBranches - 1} }
ClassShapes ==
    { [file |-> "class", m |-> m, extra |-> x, named |-> nm] :
         m \in 0..MaxMethods, x \in BOOLEAN, nm \in BOOLEAN }

\* A configured threshold: whether the key is present, and its value.
Unset == [set |-> FALSE, value |-> 0]
Configured(v) == [set |-> TRUE, value |-> v]
Thresholds == {Unset} \cup { Configured(v) : v \in 0..MaxThreshold }
DefaultAstConfig == [complexity |-> Unset, max_methods |-> Unset, max_params |-> Unset]
AstConfigs ==
    { [complexity |-> c, max_methods |-> Unset, max_params |-> Unset] : c \in Thresholds }
    \cup { [complexity |-> Unset, max_methods |-> c, max_params |-> Unset] : c \in Thresholds }
    \cup { [complexity |-> Unset, max_methods |-> Unset, max_params |-> c] : c \in Thresholds }
    \cup { [complexity |-> Configured(1), max_methods |-> Unset, max_params |-> Configured(1)] }

\* astConfig.x || d
OrDefault(c, d) == IF c.set /\ c.value # 0 THEN c.value ELSE d

maxComplexity(cfg) == OrDefault(cfg.complexity, 10)
maxMethods(cfg) == OrDefault(cfg.max_methods, 10)
maxParams(cfg) == OrDefault(cfg.max_params, 5)

\* The failure pushed: what the gate passes to this.createFailure(details,
\* files, hint), and the metrics it attaches to the failure afterwards.
createFailure(details, paths, hint, metrics) ==
    [details |-> details, files |-> paths, hint |-> hint, metrics |-> metrics]

\* ts.isFunctionDeclaration(node) || ts.isMethodDeclaration(node) || ts.isArrowFunction(node)
isAnalyzedFunction(node) ==
    node.kind \in {"FunctionDeclaration", "MethodDeclaration", "ArrowFunction"}

\* getNodeName
getNodeName(node, parent) ==
    IF node.kind \in {"FunctionDeclaration", "MethodDeclaration"}
    THEN (IF node.name # <<>> THEN node.name ELSE <<"anonymous">>)
    ELSE IF node.kind = "ArrowFunction"
    THEN (IF parent.kind = "VariableDeclaration" THEN parent.name ELSE <<"anonymous arrow">>)
    ELSE <<"unknown">>

\* node.parameters.length
parameterCount(node) == Len(SelectSeq(node.kids, LAMBDA k : k.kind = "Parameter"))

\* The kinds countComplexity counts.
isBranching(n) ==
    n.kind \in {"IfStatement", "CaseClause", "DefaultClause", "ForStatement", "ForInStatement",
                "ForOfStatement", "WhileStatement", "DoStatement", "ConditionalExpression"}
isLogical(n) == n.kind = "BinaryExpression" /\ n.op \in {"&&", "||"}

\* countComplexity(n): what the subtree of n adds to complexity.
RECURSIVE countComplexity(_)
RECURSIVE countComplexityEach(_)
countComplexity(n) ==
    (IF isBranching(n) THEN 1 ELSE 0) + (IF isLogical(n) THEN 1 ELSE 0)
      + countComplexityEach(n.kids)
countComplexityEach(kids) ==
    IF kids = <<>> THEN 0 ELSE countComplexity(Head(kids)) + countComplexityEach(Tail(kids))

\* let complexity = 1; ts.forEachChild(node, countComplexity)
complexityOf(node) == 1 + countComplexityEach(node.kids)

\* The failures visit pushes for a function node.
functionFailures(node, parent, path, cfg) ==
    LET name == getNodeName(node, parent)
        np == parameterCount(node)
        cx == complexityOf(node)
    IN  (IF np > maxParams(cfg)
         THEN <<createFailure(<<"parameters", name, np, maxParams(cfg)>>, <<path>>,
                              <<"reduce parameters">>, [count |-> np, max |-> maxParams(cfg)])>>
         ELSE <<>>)
        \o (IF cx > maxComplexity(cfg)
            THEN <<createFailure(<<"complexity", name, cx, maxComplexity(cfg)>>, <<path>>,
                                 <<"refactor", name>>,
                                 [complexity |-> cx, max |-> maxComplexity(cfg)])>>
            ELSE <<>>)

\* The failure visit pushes for a class declaration.
classFailures(node, path, cfg) ==
    LET name == IF node.name # <<>> THEN node.name ELSE <<"Anonymous Class">>
        methods == SelectSeq(node.kids, LAMBDA k : k.kind = "MethodDeclaration")
    IN  IF Len(methods) > maxMethods(cfg)
        THEN <<createFailure(<<"methods", name, Len(methods), maxMethods(cfg)>>, <<path>>,
                             <<"split", name>>,
                             [methodCount |-> Len(methods), max |-> maxMethods(cfg)])>>
        ELSE <<>>

\* visit(node): the failures pushed while visiting node and its descendants,
\* in the order they are pushed.
RECURSIVE visit(_, _, _, _)
RECURSIVE visitEach(_, _, _, _)
visit(node, parent, path, cfg) ==
    (IF isAnalyzedFunction(node) THEN functionFailures(node, parent, path, cfg) ELSE <<>>)
      \o (IF node.kind = "ClassDeclaration" THEN classFailures(node, path, cfg) ELSE <<>>)
      \o visitEach(node.kids, node, path, cfg)
visitEach(kids, parent, path, cfg) ==
    IF kids = <<>> THEN <<>>
    ELSE visit(Head(kids), parent, path, cfg) \o visitEach(Tail(kids), parent, path, cfg)

\* analyzeSourceFile(sourceFile, relativePath, failures): the failures array afterwards.
analyzeSourceFile(sourceFile, path, cfg, fs) ==
    fs \o visitEach(sourceFile.kids, sourceFile, path, cfg)

NoShape == [file |-> "none"]

AstParked ==
    /\ astConfig = DefaultAstConfig /\ astPc = "idle" /\ shape = NoShape
    /\ failures = <<>> /\ project = <<>> /\ cursor = 0 /\ reads = <<>>

\* --- the gate applied to one source file ---

AstInit ==
    /\ astConfig \in AstConfigs
    /\ astPc = "idle" /\ shape = NoShape /\ failures = <<>>
    /\ project = <<>> /\ cursor = 0 /\ reads = <<>>

\* analyzeSourceFile(sourceFile, path, failures) on a fresh failures array.
Analyze(sh) ==
    /\ shape' = sh
    /\ failures' = analyzeSourceFile(Tree(sh), 1, astConfig, <<>>)
    /\ astPc' = "analyzed"
    /\ UNCHANGED << astConfig, project, cursor, reads >>
    /\ UNCHANGED << ixvars, ovrvars, callvars >>

\* A file with one function: every form, every kind of construct in its body.
AnalyzeFunction ==
    /\ astPc = "idle"
    /\ \E sh \in FunctionShapes : Analyze(sh)

\* A file with one function without branches: every parameter count.
AnalyzeParameters ==
    /\ astPc = "idle"
    /\ \E sh \in ParameterShapes : Analyze(sh)

\* A file with one function whose constructs are nested in one another.
AnalyzeNestedLayout ==
    /\ astPc = "idle"
    /\ \E sh \in NestedLayoutShapes : Analyze(sh)

\* A file with a function that declares a function in its body.
AnalyzeNestedFunction ==
    /\ astPc = "idle"
    /\ \E sh \in NestedFunctionShapes : Analyze(sh)

\* A file with one class.
AnalyzeClass ==
    /\ astPc = "idle"
    /\ \E sh \in ClassShapes : Analyze(sh)

AstNext ==
    \/ AnalyzeFunction
    \/ AnalyzeParameters
    \/ AnalyzeNestedLayout
    \/ AnalyzeNestedFunction
    \/ AnalyzeClass

\* --- ASTGate.run over a project ---

\* The files of a project: what each holds, and whether fs.readFile can read it.
\* A garbled file is not valid TypeScript: ts.createSourceFile still returns a
\* tree for it, here one without declarations.
Garbled == [file |-> "garbled"]
SixParameters ==
    [file |-> "function", form |-> "FunctionDeclaration", np |-> 6, init |-> FALSE,
     item |-> "return", n |-> 0, layout |-> "flat", inner |-> NoInner]
ElevenMethods == [file |-> "class", m |-> 11, extra |-> FALSE, named |-> TRUE]
Clean ==
    [file |-> "function", form |-> "ArrowFunction", np |-> 1, init |-> FALSE,
     item |-> "if", n |-> 1, layout |-> "flat", inner |-> NoInner]
ProjectShapes == {Garbled, SixParameters, ElevenMethods, Clean}
ProjectFiles == { [shape |-> sh, readable |-> r] : sh \in ProjectShapes, r \in BOOLEAN }
Projects == UNION { [1..n -> ProjectFiles] : n \in 1..MaxProject }

\* ts.createSourceFile(file, content, ...)
createSourceFile(sh) == IF sh = Garbled THEN Node("SourceFile", <<>>) ELSE Tree(sh)

AstRunInit ==
    /\ astConfig = DefaultAstConfig
    /\ project \in Projects
    /\ astPc = "idle" /\ shape = NoShape /\ failures = <<>> /\ cursor = 0 /\ reads = <<>>

\* const failures = []; const files = await globby(...)
RunStart ==
    /\ astPc = "idle"
    /\ astPc' = "running"
    /\ cursor' = 1
    /\ failures' = <<>>
    /\ reads' = <<>>
    /\ UNCHANGED << astConfig, shape, project >>
    /\ UNCHANGED << ixvars, ovrvars, callvars >>

\* One turn of the loop: the file is read, parsed and analyzed.
RunFile ==
    /\ astPc = "running"
    /\ cursor <= Len(project)
    /\ project[cursor].readable
    /\ reads' = Append(reads, cursor)
    /\ failures' = analyzeSourceFile(createSourceFile(project[cursor].shape), cursor,
                                     astConfig, failures)
    /\ cursor' = cursor + 1
    /\ UNCHANGED << astConfig, astPc, shape, project >>
    /\ UNCHANGED << ixvars, ovrvars, callvars >>

\* One turn of the loop: fs.readFile rejects, nothing catches it, run() rejects.
RunThrow ==
    /\ astPc = "running"
    /\ cursor <= Len(project)
    /\ ~project[cursor].readable
    /\ reads' = Append(reads, cursor)
    /\ astPc' = "thrown"
    /\ UNCHANGED << astConfig, shape, failures, project, cursor >>
    /\ UNCHANGED << ixvars, ovrvars, callvars >>

\* return failures
RunReturn ==
    /\ astPc = "running"
    /\ cursor > Len(project)
    /\ astPc' = "returned"
    /\ UNCHANGED << astConfig, shape, failures, project, cursor, reads >>
    /\ UNCHANGED << ixvars, ovrvars, callvars >>

AstRunNext ==
    \/ RunStart
    \/ RunFile
    \/ RunThrow
    \/ RunReturn

(***************************************************************************)
(* ================= OverrideManager (pattern-index/overrides.ts) ======== *)
(***************************************************************************)

\* Bounds of the override model.
MaxTicks == 2       \* times the clock advances
MaxOps == 4         \* operations of the manager in one behaviour

DEFAULT_EXPIRATION_DAYS == 30

\* Timestamps are days. An entry's expiresAt is NoExpiry (the field is
\* missing) or At(t).
NoExpiry == <<>>
At(t) == <<t>>

\* Patterns and names are strings, written as the sequence of their characters.
Foo == <<"f", "o", "o">>
Fob == <<"f", "o", "b">>
Bar == <<"b", "a", "r">>
FoStar == <<"f", "o", "*">>
OverridePatterns == {Foo, FoStar}
Lifetimes == {0, 1}
Names == {Foo, Fob, Bar}

\* The first day of a behaviour: late enough for the ledger to hold entries
\* that were given the default expiration and have since expired.
StartDay == DEFAULT_EXPIRATION_DAYS + 1

Entry(pattern, createdAt, expiresAt) ==
    [pattern |-> pattern, createdAt |-> createdAt, expiresAt |-> expiresAt]

\* .rigour/allow.json: missing, or {overrides: [...]}.
NoLedger == [exists |-> FALSE, overrides |-> <<>>]
Stored(os) == [exists |-> TRUE, overrides |-> os]

\* The ledgers earlier sessions can have left behind.
InitialLedgers ==
    { NoLedger,
      Stored(<<Entry(Foo, 0, At(DEFAULT_EXPIRATION_DAYS))>>),
      Stored(<<Entry(Foo, 0, At(DEFAULT_EXPIRATION_DAYS)), Entry(Bar, StartDay, At(StartDay + 1))>>),
      Stored(<<Entry(FoStar, 0, NoExpiry), Entry(Bar, 0, At(StartDay))>>) }

\* isExpired with expiry never taking effect.
isExpiredNever(o, t) == FALSE

\* isExpired(override), called at time t.
isExpired(o, t) ==
    IF o.expiresAt = NoExpiry THEN FALSE ELSE o.expiresAt[1] < t

\* getDefaultExpiration giving no expiration.
getDefaultExpirationNone(t) == NoExpiry

\* getDefaultExpiration(), called at time t.
getDefaultExpiration(t) == At(t + DEFAULT_EXPIRATION_DAYS)

\* new RegExp('^' + pattern.replace(/\*/g, '.*') + '$').test(name), for
\* patterns made of letters, '*', '.' (any character) and '$' (end of input);
\* it is applied to patterns the constructor accepts (regexValid).
RECURSIVE regexTest(_, _)
regexTest(p, n) ==
    IF p = <<>> THEN n = <<>>
    ELSE IF Head(p) = "*"
         THEN regexTest(Tail(p), n) \/ (n # <<>> /\ regexTest(p, Tail(n)))
         ELSE IF Head(p) = "$"
         THEN n = <<>> /\ regexTest(Tail(p), n)
         ELSE /\ n # <<>>
              /\ Head(p) = "." \/ Head(p) = Head(n)
              /\ regexTest(Tail(p), Tail(n))

\* override.pattern.includes('*')
includesStar(p) == \E k \in DOMAIN p : p[k] = "*"

\* Whether new RegExp('^' + pattern.replace(/\*/g, '.*') + '$') can be built:
\* a "(" of these patterns is never closed, which is a SyntaxError.
regexValid(p) == \A k \in DOMAIN p : p[k] # "("

\* Whether the loop of isOverridden returns the entry o for the name.
matches(o, name, t) ==
    /\ ~isExpired(o, t)
    /\ o.pattern = name
       \/ (includesStar(o.pattern) /\ regexValid(o.pattern) /\ regexTest(o.pattern, name))

\* Whether the loop of isOverridden throws at the entry o.
raises(o, name, t) ==
    /\ ~isExpired(o, t)
    /\ o.pattern # name
    /\ includesStar(o.pattern) /\ ~regexValid(o.pattern)

\* The error new RegExp throws, which isOverridden lets through.
SyntaxError == [thrown |-> "SyntaxError"]

\* isOverridden(name), called at time t with this.overrides = os.
isOverridden(os, name, t) ==
    LET stops == { k \in 1..Len(os) : matches(os[k], name, t) \/ raises(os[k], name, t) }
    IN  IF stops = {} THEN Null
        ELSE LET k == CHOOSE m \in stops : \A n \in stops : m <= n
             IN  IF raises(os[k], name, t) THEN SyntaxError ELSE os[k]

\* getActiveOverrides()
getActiveOverrides(os, t) == SelectSeq(os, LAMBDA o : ~isExpired(o, t))

\* getExpiredOverrides()
getExpiredOverrides(os, t) == SelectSeq(os, LAMBDA o : isExpired(o, t))

\* withoutPattern with the filter left out.
withoutPatternKeepingAll(os, pattern) == os

\* this.overrides.filter(o => o.pattern !== pattern)
withoutPattern(os, pattern) == SelectSeq(os, LAMBDA o : o.pattern # pattern)

\* An operation called: its name, the pattern it was given, and whether
\* this.overrides held an entry of that pattern when it was called.
Op(name, pattern, held) == [op |-> name, pattern |-> pattern, held |-> held]
NoOp == Op("none", <<>>, FALSE)
\* A call of addOverride, with the expiresAt it was given.
AddOp(pattern, held, expiresAt) ==
    [op |-> "addOverride", pattern |-> pattern, held |-> held, expiresAt |-> expiresAt]



OvrParked ==
    /\ overrides = <<>> /\ ledger = NoLedger /\ now = 0 /\ ticks = 0 /\ ops = 0
    /\ lastOp = NoOp

OvrInit ==
    /\ overrides = <<>>
    /\ ledger \in InitialLedgers
    /\ now = StartDay
    /\ ticks = 0
    /\ ops = 0
    /\ lastOp = NoOp

\* load()
Load ==
    /\ ops < MaxOps
    /\ overrides' = (IF ledger.exists THEN getActiveOverrides(ledger.overrides, now) ELSE <<>>)
    /\ ops' = ops + 1
    /\ lastOp' = Op("load", <<>>, FALSE)
    /\ UNCHANGED << ledger, now, ticks >>
    /\ UNCHANGED << ixvars, astvars, callvars >>

\* addOverride({pattern, expiresAt}), save() included; the caller gives no
\* expiresAt (lifetime 0) or one that many days ahead.
AddOverride(pattern, lifetime) ==
    /\ ops < MaxOps
    /\ LET expiresAt == IF lifetime = 0 THEN NoExpiry ELSE At(now + lifetime)
           fullOverride == Entry(pattern, now,
                                 IF expiresAt = NoExpiry THEN getDefaultExpiration(now)
                                 ELSE expiresAt)
           kept == Append(withoutPattern(overrides, pattern), fullOverride)
       IN  /\ overrides' = kept
           /\ ledger' = Stored(kept)
    /\ ops' = ops + 1
    /\ lastOp' = AddOp(pattern, withoutPattern(overrides, pattern) # overrides,
                        IF lifetime = 0 THEN NoExpiry ELSE At(now + lifetime))
    /\ UNCHANGED << now, ticks >>
    /\ UNCHANGED << ixvars, astvars, callvars >>

\* removeOverride(pattern), save() included.
RemoveOverride(pattern) ==
    /\ ops < MaxOps
    /\ LET kept == withoutPattern(overrides, pattern)
       IN  /\ overrides' = kept
           /\ ledger' = (IF Len(kept) # Len(overrides) THEN Stored(kept) ELSE ledger)
    /\ ops' = ops + 1
    /\ lastOp' = Op("removeOverride", pattern, withoutPattern(overrides, pattern) # overrides)
    /\ UNCHANGED << now, ticks >>
    /\ UNCHANGED << ixvars, astvars, callvars >>

\* cleanupExpired(), save() included.
CleanupExpired ==
    /\ ops < MaxOps
    /\ LET kept == getActiveOverrides(overrides, now)
       IN  /\ overrides' = kept
           /\ ledger' = (IF Len(kept) # Len(overrides) THEN Stored(kept) ELSE ledger)
    /\ ops' = ops + 1
    /\ lastOp' = Op("cleanupExpired", <<>>, FALSE)
    /\ UNCHANGED << now, ticks >>
    /\ UNCHANGED << ixvars, astvars, callvars >>

\* Time passes: d days.
Tick(d) ==
    /\ ticks < MaxTicks
    /\ now' = now + d
    /\ ticks' = ticks + 1
    /\ UNCHANGED << overrides, ledger, ops, lastOp >>
    /\ UNCHANGED << ixvars, astvars, callvars >>

OvrNext ==
    \/ Load
    \/ \E p \in OverridePatterns, x \in Lifetimes : AddOverride(p, x)
    \/ \E p \in OverridePatterns : RemoveOverride(p)
    \/ CleanupExpired
    \/ \E d \in {1, DEFAULT_EXPIRATION_DAYS} : Tick(d)

\* --- isOverridden as a function of the list held and the name ---

\* Bounds of the lookup model.
MaxPatternLen == 2  \* characters of a pattern
MaxNameLen == 2     \* characters of a name
MaxEntries == 2     \* entries held by the manager

NoCall == [fn |-> "none"]
NoDetector == [made |-> FALSE]
NoLoop == [pc |-> "none"]
NoSetup == [pc |-> "none"]
NoPool == [pc |-> "none"]
NoOther == [made |-> FALSE]
NoPipe == [made |-> FALSE]
MoreParked == setup = NoSetup /\ pool = NoPool /\ other = NoOther /\ pipe = NoPipe
ExtParked == detector = NoDetector /\ loop = NoLoop /\ MoreParked
CallParked == call = NoCall /\ result = Null /\ ExtParked

\* Strings over an alphabet, with lengths from lo to hi.
Strings(alphabet, lo, hi) == UNION { [1..len -> alphabet] : len \in lo..hi }

LookupPatterns == Strings({"a", "$", ".", "*"}, 1, MaxPatternLen)
LookupNames == Strings({"a", "b", "$"}, 0, MaxNameLen)
LookupEntries ==
    { Entry(p, 0, x) : p \in LookupPatterns, x \in {NoExpiry, At(StartDay - 1)} }

LookupInit ==
    /\ overrides \in UNION { [1..len -> LookupEntries] : len \in 1..MaxEntries }
    /\ ledger = Stored(overrides)
    /\ now = StartDay
    /\ ticks = 0 /\ ops = 0 /\ lastOp = NoOp
    /\ call = NoCall /\ result = Null

\* isOverridden(name)
IsOverridden(name) ==
    /\ call = NoCall
    /\ call' = [fn |-> "isOverridden", name |-> name]
    /\ result' = isOverridden(overrides, name, now)
    /\ UNCHANGED << ixvars, astvars, ovrvars, detector, loop, morevars >>

LookupNext ==
    /\ call = NoCall
    /\ \E name \in LookupNames : IsOverridden(name)

\* isOverridden over patterns that hold "*" next to a character with a
\* meaning in regular expressions.
SpecialPatterns == Strings({"a", "(", "*"}, 1, MaxPatternLen)
SpecialNames == Strings({"a", "("}, 0, MaxNameLen)
SpecialEntries ==
    { Entry(p, 0, x) : p \in SpecialPatterns, x \in {NoExpiry, At(StartDay - 1)} }

SpecialInit ==
    /\ overrides \in UNION { [1..len -> SpecialEntries] : len \in 1..MaxEntries }
    /\ ledger = Stored(overrides)
    /\ now = StartDay
    /\ ticks = 0 /\ ops = 0 /\ lastOp = NoOp
    /\ call = NoCall /\ result = Null

SpecialNext ==
    /\ call = NoCall
    /\ \E name \in SpecialNames : IsOverridden(name)

\* --- parseInlineOverrides ---

\* Bound of the inline-override model.
MaxLines == 2       \* lines of the code parsed

\* A source line is the sequence of its tokens: "//", " ", the marker
\* "rigour-allow:", "(", ")", and the characters "a" (code), "n" (of a name)
\* and "r" (of a reason).
Marker == "rigour-allow:"

\* The lines of the model: code before the comment or none, a comment with the
\* marker or without it, a name of 0..2 characters, a space before the
\* parenthesis or none, and a parenthesis with a reason, empty, or none.
LineShapes ==
    { [lead |-> l, marker |-> m, name |-> n, gap |-> g, paren |-> q] :
        l \in BOOLEAN, m \in BOOLEAN, n \in 0..2, g \in 0..1,
        q \in {"none", "reason", "empty"} }

ReasonText == <<"r", " ", "r">>

LineOf(sh) ==
    (IF sh.lead THEN <<"a", " ">> ELSE <<>>)
      \o (IF sh.marker THEN <<"//", " ", Marker, " ">> ELSE <<"//", " ">>)
      \o [k \in 1..sh.name |-> "n"]
      \o [k \in 1..sh.gap |-> " "]
      \o (CASE sh.paren = "none" -> <<>>
            [] sh.paren = "empty" -> <<"(", ")">>
            [] sh.paren = "reason" -> <<"(">> \o ReasonText \o <<")">>)

Codes == UNION { [1..len -> LineShapes] : len \in 1..MaxLines }

\* The first position from pos on that holds no white space (\s*), the first
\* that holds white space or ends the line (\S+), the first that holds ")".
RECURSIVE skipSpaces(_, _)
skipSpaces(l, pos) == IF pos <= Len(l) /\ l[pos] = " " THEN skipSpaces(l, pos + 1) ELSE pos
RECURSIVE runEnd(_, _)
runEnd(l, pos) == IF pos <= Len(l) /\ l[pos] # " " THEN runEnd(l, pos + 1) ELSE pos
RECURSIVE closing(_, _)
closing(l, pos) == IF pos <= Len(l) /\ l[pos] # ")" THEN closing(l, pos + 1) ELSE pos

\* /\/\/\s*rigour-allow:\s*(\S+)(?:\s*\(([^)]+)\))?/ matched from position pos:
\* where the pattern name starts, 0 when there is no match from pos.
nameStart(l, pos) ==
    IF l[pos] # "//" THEN 0
    ELSE LET j == skipSpaces(l, pos + 1)
         IN  IF j > Len(l) \/ l[j] # Marker THEN 0
             ELSE LET k == skipSpaces(l, j + 1) IN IF k > Len(l) THEN 0 ELSE k

\* line.match(...): the two groups of the leftmost match, or Null.
lineMatch(l) ==
    LET starts == { pos \in 1..Len(l) : nameStart(l, pos) # 0 }
    IN  IF starts = {} THEN Null
        ELSE LET pos == CHOOSE x \in starts : \A y \in starts : x <= y
                 k == nameStart(l, pos)
                 e == runEnd(l, k)
                 g == skipSpaces(l, e)
                 c == closing(l, g + 1)
                 grouped == g <= Len(l) /\ l[g] = "(" /\ c <= Len(l) /\ c > g + 1
             IN  [name |-> SubSeq(l, k, e - 1),
                  reason |-> IF grouped THEN SubSeq(l, g + 1, c - 1) ELSE <<>>]

InlinePath == <<"src", "a.ts">>

\* The override pushed for line pos, whose match is m.
inlineOverride(m, file, pos, t) ==
    [pattern |-> m.name,
     reason |-> IF m.reason # <<>> THEN m.reason ELSE <<"Inline override in", file, pos>>,
     createdAt |-> t,
     approvedBy |-> <<"inline", file, pos>>]

\* parseInlineOverrides(code, filePath), called at time t; code is the list of
\* its lines.
RECURSIVE parseInlineOverrides(_, _, _, _)
parseInlineOverrides(lines, file, t, upTo) ==
    IF upTo = 0 THEN <<>>
    ELSE parseInlineOverrides(lines, file, t, upTo - 1)
           \o (IF lineMatch(lines[upTo]) = Null THEN <<>>
               ELSE <<inlineOverride(lineMatch(lines[upTo]), file, upTo, t)>>)

InlineInit ==
    /\ overrides \in {<<>>, <<Entry(<<"n">>, 0, NoExpiry)>>}
    /\ ledger \in {NoLedger, Stored(overrides)}
    /\ now = StartDay
    /\ ticks = 0 /\ ops = 0 /\ lastOp = NoOp
    /\ call = NoCall /\ result = Null

\* parseInlineOverrides(code, filePath)
ParseInlineOverrides(code) ==
    /\ call = NoCall
    /\ call' = [fn |-> "parseInlineOverrides", code |-> code, file |-> InlinePath]
    /\ result' = parseInlineOverrides([k \in 1..Len(code) |-> LineOf(code[k])],
                                      InlinePath, now, Len(code))
    /\ UNCHANGED << ixvars, astvars, ovrvars, detector, loop, morevars >>

InlineNext ==
    /\ call = NoCall
    /\ \E code \in Codes : ParseInlineOverrides(code)

\* --- PatternIndexer.extractPatterns over a syntax tree ---

\* Bounds of the extraction model.
MaxStatements == 2  \* top-level statements of the file
MaxBindings == 2    \* names one variable statement declares

\* minNameLength of DEFAULT_CONFIG
MIN_NAME_LENGTH == 2

\* Names: one too short, one long enough, one long enough and upper-case.
ShortName == <<"a">>
LowerName == <<"a", "b">>
UpperName == <<"A", "B">>
DeclNames == {ShortName, LowerName, UpperName}
toUpperCase(name) == [k \in DOMAIN name |-> IF name[k] \in {"a", "A"} THEN "A" ELSE "B"]

Initializers ==
    {"ArrowFunction", "FunctionExpression", "StringLiteral", "NumericLiteral",
     "ObjectLiteralExpression", "CallExpression"}
Bindings == { [name |-> n, initializer |-> e] : n \in DeclNames, e \in Initializers }

VariableStatement(const, decls) ==
    [kind |-> "VariableStatement", const |-> const, declarations |-> decls, body |-> <<>>]
\* A declaration of the kind with the name; body holds the statements
\* inside its body (for a class, inside the bodies of its methods).
Declaration(kind, name, body) == [kind |-> kind, name |-> name, body |-> body]

DeclarationKinds ==
    {"FunctionDeclaration", "ClassDeclaration", "InterfaceDeclaration",
     "TypeAliasDeclaration", "EnumDeclaration"}

\* Statements that stand inside a function or a method.
NestedStatements ==
    { Declaration("FunctionDeclaration", LowerName, <<>>),
      Declaration("ClassDeclaration", LowerName, <<>>),
      VariableStatement(TRUE, <<[name |-> LowerName, initializer |-> "ArrowFunction"]>>),
      VariableStatement(TRUE, <<[name |-> UpperName, initializer |-> "StringLiteral"]>>),
      [kind |-> "ExpressionStatement", body |-> <<>>] }

TopStatements ==
    { VariableStatement(c, ds) :
        c \in BOOLEAN, ds \in UNION { [1..len -> Bindings] : len \in 1..MaxBindings } }
      \cup { Declaration(k, n, <<>>) : k \in DeclarationKinds, n \in {ShortName, LowerName} }
      \cup { Declaration(k, LowerName, <<b>>) :
               k \in {"FunctionDeclaration", "ClassDeclaration"}, b \in NestedStatements }
      \cup { [kind |-> "ExpressionStatement", body |-> <<>>] }

SourceFiles == UNION { [1..len -> TopStatements] : len \in 1..MaxStatements }

\* The entry createPatternEntry is asked for: its type and its name.
patternOf(type, name) == [type |-> type, name |-> name]

\* The record of a variable statement: that of the first of its bindings, from
\* position k on, that is a function or a constant; the loop returns there.
RECURSIVE variablePattern(_, _)
variablePattern(node, k) ==
    IF k > Len(node.declarations) THEN Null
    ELSE LET decl == node.declarations[k]
         IN  IF Len(decl.name) < MIN_NAME_LENGTH THEN variablePattern(node, k + 1)
             ELSE IF decl.initializer \in {"ArrowFunction", "FunctionExpression"}
                  THEN patternOf("function", decl.name)
             ELSE IF /\ decl.initializer \in {"StringLiteral", "NumericLiteral",
                                              "ObjectLiteralExpression"}
                     /\ node.const
                     /\ decl.name = toUpperCase(decl.name)
                  THEN patternOf("constant", decl.name)
             ELSE variablePattern(node, k + 1)

\* nodeToPattern; the names of the model are those detectFunctionType and
\* detectClassType give the plain types.
nodeToPattern(node) ==
    CASE node.kind = "VariableStatement" -> variablePattern(node, 1)
      [] node.kind = "ExpressionStatement" -> Null
      [] OTHER ->
           IF Len(node.name) < MIN_NAME_LENGTH THEN Null
           ELSE patternOf(CASE node.kind = "FunctionDeclaration" -> "function"
                            [] node.kind = "ClassDeclaration" -> "class"
                            [] node.kind = "InterfaceDeclaration" -> "interface"
                            [] node.kind = "TypeAliasDeclaration" -> "type"
                            [] node.kind = "EnumDeclaration" -> "enum",
                          node.name)

\* visit(node) of extractPatterns: the node's pattern, then the patterns of
\* its children, over the statements at positions 1..upTo.
RECURSIVE visitStatements(_, _)
visitStatements(stmts, upTo) ==
    IF upTo = 0 THEN <<>>
    ELSE visitStatements(stmts, upTo - 1)
           \o (IF nodeToPattern(stmts[upTo]) = Null THEN <<>>
               ELSE <<nodeToPattern(stmts[upTo])>>)
           \o visitStatements(stmts[upTo].body, Len(stmts[upTo].body))

ExtractInit == call = NoCall /\ result = Null /\ OvrParked

\* extractPatterns(filePath, content)
ExtractPatterns(sourceFile) ==
    /\ call = NoCall
    /\ call' = [fn |-> "extractPatterns", sourceFile |-> sourceFile]
    /\ result' = visitStatements(sourceFile, Len(sourceFile))
    /\ UNCHANGED << ixvars, astvars, ovrvars, detector, loop, morevars >>

ExtractNext ==
    /\ call = NoCall
    /\ \E sourceFile \in SourceFiles : ExtractPatterns(sourceFile)

\* --- PatternIndexer.findFiles over include and exclude globs ---

\* A file of the project: the directories above it, and its base name as
\* stem, an optional middle part (a.test.ts) and extension.
Path(dirs, stem, mid, ext) == [dirs |-> dirs, stem |-> stem, mid |-> mid, ext |-> ext]

ProjectTree ==
    { Path(<<"src">>, "a", "", ".ts"),
      Path(<<"src">>, "a", "test", ".ts"),
      Path(<<"src">>, "notes", "", ".md"),
      Path(<<"src", "node_modules">>, "dep", "", ".ts"),
      Path(<<"lib", "dist">>, "out", "", ".js"),
      Path(<<"node_modules">>, "dep", "", ".js"),
      Path(<<".git">>, "hook", "", ".js"),
      Path(<<"gen">>, "g", "", ".ts") }

\* Globs: root/**/* with an extension appended or none ("**" for any root),
\* **/dir/** for the files within a directory of that name, **/*.mid.* for
\* the base names with that middle part, and the path of one file.
TreeGlob(root, ext) == [kind |-> "tree", root |-> root, ext |-> ext]
WithinGlob(dir) == [kind |-> "within", dir |-> dir]
InfixGlob(mid) == [kind |-> "infix", mid |-> mid]
ExactGlob(file) == [kind |-> "exact", file |-> file]

hidden(f) == \E k \in DOMAIN f.dirs : f.dirs[k] \in {".git"}

\* Whether the glob matches the file; * and ** match no name starting with
\* a dot.
globMatch(g, f) ==
    CASE g.kind = "tree" ->
           /\ ~hidden(f)
           /\ g.root = "**" \/ (Len(f.dirs) >= 1 /\ f.dirs[1] = g.root)
           /\ g.ext = "" \/ f.ext = g.ext
      [] g.kind = "within" -> \E k \in DOMAIN f.dirs : f.dirs[k] = g.dir
      [] g.kind = "infix" -> f.mid = g.mid
      [] g.kind = "exact" -> f = g.file

DEFAULT_CONFIG ==
    [include |-> <<TreeGlob("src", ""), TreeGlob("lib", ""), TreeGlob("app", ""),
                   TreeGlob("components", ""), TreeGlob("utils", ""), TreeGlob("hooks", "")>>,
     exclude |-> <<WithinGlob("node_modules"), WithinGlob("dist"), WithinGlob("build"),
                   WithinGlob(".git"), WithinGlob("coverage")>>,
     extensions |-> <<".ts", ".tsx", ".js", ".jsx">>,
     indexTests |-> FALSE]

\* The configurations handed to the constructor: each field given or not.
Includes == { <<TreeGlob("**", "")>>,
              <<TreeGlob("src", ""), ExactGlob(Path(<<"node_modules">>, "dep", "", ".js"))>> }
Excludes == { <<>>, <<WithinGlob("gen")>>, <<WithinGlob("gen"), WithinGlob("node_modules")>> }
PartialConfigs ==
    { [given |-> gs, include |-> inc, exclude |-> exc, indexTests |-> TRUE] :
        gs \in SUBSET {"include", "exclude", "indexTests"}, inc \in Includes, exc \in Excludes }

\* constructor: { ...DEFAULT_CONFIG, ...config }
mergeConfig(partial) ==
    [f \in DOMAIN DEFAULT_CONFIG |->
        IF f \in partial.given THEN partial[f] ELSE DEFAULT_CONFIG[f]]

\* p.endsWith('*') ? `${p}${ext}` : p
withExtension(g, ext) == IF g.kind = "tree" THEN TreeGlob(g.root, ext) ELSE g

includePatterns(cfg) ==
    { withExtension(cfg.include[k], cfg.extensions[e]) :
        k \in DOMAIN cfg.include, e \in DOMAIN cfg.extensions }

excludePatterns(cfg) ==
    Range(cfg.exclude)
      \cup (IF ~cfg.indexTests
            THEN {InfixGlob("test"), InfixGlob("spec"), WithinGlob("__tests__")}
            ELSE {})

\* findFiles: globby(patterns, {ignore: exclude}) over the files on disk.
findFilesOf(cfg, tree) ==
    { f \in tree : /\ \E g \in includePatterns(cfg) : globMatch(g, f)
                   /\ ~\E g \in excludePatterns(cfg) : globMatch(g, f) }

FindInit ==
    /\ call \in { [fn |-> "new PatternIndexer", config |-> mergeConfig(c), tree |-> t] :
                    c \in PartialConfigs, t \in (SUBSET ProjectTree) \ {{}} }
    /\ result = Null
    /\ OvrParked

\* findFiles()
FindFiles ==
    /\ call.fn = "new PatternIndexer"
    /\ call' = [call EXCEPT !.fn = "findFiles"]
    /\ result' = findFilesOf(call.config, call.tree)
    /\ UNCHANGED << ixvars, astvars, ovrvars, detector, loop, morevars >>

FindNext == FindFiles

\* --- StalenessDetector ---

\* Bounds of the staleness model.
MaxTextLines == 2   \* lines of the text scanned
MaxCustom == 1      \* rules added with addDeprecation

Libraries == {"react", "express"}
NoLibrary == "none"

Rule(pattern, library, severity) ==
    [pattern |-> pattern, library |-> library, severity |-> severity]

\* The built-in rules of the model: one owned by react, one owned by no
\* library.
DEPRECATIONS ==
    << Rule("componentWillMount", "react", "error"),
       Rule("moment", NoLibrary, "warning") >>

CustomRules ==
    { Rule("legacyFunction", l, sv) :
        l \in Libraries \cup {NoLibrary}, sv \in {"error", "warning", "info"} }

\* The text scanned: its lines, each the word it holds.
Words == {"componentWillMount", "moment", "legacyFunction", "x"}
Texts == UNION { [1..len -> Words] : len \in 1..MaxTextLines }

\* A variant of applies that ignores the owning library.
appliesAlways(rule, versions) == TRUE

\* Whether the rule applies to the project: it names no library, or the
\* manifest declares the library it names.
applies(rule, versions) == rule.library = NoLibrary \/ rule.library \in versions

lineMatches(rule, text, n) == text[n] = rule.pattern

Issue(rule, n) == [line |-> n, pattern |-> rule.pattern, severity |-> rule.severity]

\* The issues of one rule on the lines 1..upTo of the text.
RECURSIVE ruleIssues(_, _, _)
ruleIssues(rule, text, upTo) ==
    IF upTo = 0 THEN <<>>
    ELSE ruleIssues(rule, text, upTo - 1)
           \o (IF lineMatches(rule, text, upTo) THEN <<Issue(rule, upTo)>> ELSE <<>>)

\* The issues of the rules 1..upTo that apply to the project.
RECURSIVE scan(_, _, _, _)
scan(rules, versions, text, upTo) ==
    IF upTo = 0 THEN <<>>
    ELSE scan(rules, versions, text, upTo - 1)
           \o (IF applies(rules[upTo], versions)
               THEN ruleIssues(rules[upTo], text, Len(text))
               ELSE <<>>)

overallStatus(found) ==
    IF \E n \in DOMAIN found : found[n].severity = "error" THEN "DEPRECATED"
    ELSE IF \E n \in DOMAIN found : found[n].severity = "warning" THEN "STALE"
    ELSE "FRESH"

checkStaleness(d, text) ==
    LET found == scan(d.deprecations, d.projectVersions, text, Len(d.deprecations))
    IN  [status |-> overallStatus(found), issues |-> found,
         projectContext |-> d.projectVersions]

\* new StalenessDetector(rootDir), over the manifests of the model.
StaleInit ==
    /\ detector \in { [made |-> TRUE, deprecations |-> DEPRECATIONS, projectVersions |-> v] :
                        v \in SUBSET Libraries }
    /\ loop = NoLoop
    /\ call = NoCall /\ result = Null

\* addDeprecation(rule)
AddDeprecation(rule) ==
    /\ call = NoCall
    /\ Len(detector.deprecations) < Len(DEPRECATIONS) + MaxCustom
    /\ detector' = [detector EXCEPT !.deprecations = Append(@, rule)]
    /\ UNCHANGED << ixvars, astvars, ovrvars, call, result, loop, morevars >>

\* checkStaleness(text)
CheckStaleness(text) ==
    /\ call = NoCall
    /\ call' = [fn |-> "checkStaleness", text |-> text]
    /\ result' = checkStaleness(detector, text)
    /\ UNCHANGED << ixvars, astvars, ovrvars, detector, loop, morevars >>

StaleNext ==
    \/ \E rule \in CustomRules : AddDeprecation(rule)
    \/ \E text \in Texts : CheckStaleness(text)

\* --- runLoop (rigour-cli commands/run.ts) ---

\* Bound of the run-loop model.
MaxIterations == 3  \* largest --iterations option given

EXIT_FAIL == 1
EXIT_INTERNAL_ERROR == 3
NoExit == -1

\* maxIterations when the option is NaN or below 1
DEFAULT_ITERATIONS == 3
\* max_files_changed_per_cycle when the configuration sets none
DEFAULT_MAX_FILES == 10

\* options.iterations: NaN, or a whole number.
NaN == [nan |-> TRUE, value |-> 0]
Number(k) == [nan |-> FALSE, value |-> k]
IterationOptions == {NaN} \cup { Number(k) : k \in -1..MaxIterations }

\* config.gates.safety?.max_files_changed_per_cycle: 0 stands for a
\* configuration that sets none.
SafetyLimits == {0, 1}
\* changedThisCycle.length
ChangedCounts == {0, 2, DEFAULT_MAX_FILES + 1}

\* A variant of maxIterationsOf that takes the option as it is given.
maxIterationsUnchecked(option) == option.value

\* isNaN(options.iterations) || options.iterations < 1 ? 3 : options.iterations
maxIterationsOf(option) ==
    IF option.nan \/ option.value < 1 THEN DEFAULT_ITERATIONS ELSE option.value

\* config.gates.safety?.max_files_changed_per_cycle || 10
maxFilesOf(limit) == IF limit # 0 THEN limit ELSE DEFAULT_MAX_FILES

\* runLoop(cwd, agentArgs, options) with rigour.yml present and valid, about
\* to test the condition of its loop for the first time.
RunInit ==
    /\ loop \in { [pc |-> "head", option |-> o, agentGiven |-> g, limit |-> m,
                   maxIterations |-> maxIterationsOf(o), iteration |-> 0,
                   agentRuns |-> 0, gateRuns |-> 0, changed |-> 0,
                   report |-> "none", exitCode |-> NoExit] :
                    o \in IterationOptions, g \in BOOLEAN, m \in SafetyLimits }
    /\ detector = NoDetector
    /\ call = NoCall /\ result = Null

\* while (iteration < maxIterations) { iteration++; ... The condition holds
\* whenever it is tested: maxIterations is at least 1 at entry, and after a
\* failing iteration the loop is left at line 98 when iteration equals it.
Iterate ==
    /\ loop.pc = "head"
    /\ loop.iteration < loop.maxIterations
    /\ loop' = [loop EXCEPT !.iteration = @ + 1, !.pc = "agent"]
    /\ UNCHANGED << ixvars, astvars, ovrvars, call, result, detector, morevars >>

\* Lines 37-69: the agent command, if one is given, between two snapshots of
\* the changed files, and the safety rail; a failing command is passed over.
RunAgent(changed) ==
    /\ loop.pc = "agent"
    /\ loop' = [loop EXCEPT
                  !.agentRuns = IF loop.agentGiven THEN @ + 1 ELSE @,
                  !.changed = changed,
                  !.pc = IF changed > maxFilesOf(loop.limit) THEN "exited" ELSE "audit",
                  !.exitCode = IF changed > maxFilesOf(loop.limit) THEN EXIT_FAIL ELSE @]
    /\ UNCHANGED << ixvars, astvars, ovrvars, call, result, detector, morevars >>

\* Lines 73-99: runner.run(cwd), which reports PASS or FAIL or throws, and
\* what follows from its report.
Audit(status) ==
    /\ loop.pc = "audit"
    /\ loop' = [loop EXCEPT
                  !.gateRuns = @ + 1,
                  !.report = status,
                  !.pc = CASE status = "PASS" -> "returned"
                           [] status = "throws" -> "exited"
                           [] status = "FAIL" ->
                                IF loop.iteration = loop.maxIterations
                                THEN "exited" ELSE "head",
                  !.exitCode = CASE status = "PASS" -> @
                                 [] status = "throws" -> EXIT_INTERNAL_ERROR
                                 [] status = "FAIL" ->
                                      IF loop.iteration = loop.maxIterations
                                      THEN EXIT_FAIL ELSE @]
    /\ UNCHANGED << ixvars, astvars, ovrvars, call, result, detector, morevars >>

RunNext ==
    \/ Iterate
    \/ \E changed \in ChangedCounts : RunAgent(changed)
    \/ \E status \in {"PASS", "FAIL", "throws"} : Audit(status)

\* --- initCommand (rigour-cli commands/init.ts) ---

ConfigPath == "rigour.yml"
InstructionsPath == "docs/AGENT_INSTRUCTIONS.md"
MdcPath == ".cursor/rules/rigour.mdc"
RequiredDoc == "docs/SPEC.md"
ArchDoc == "docs/ARCH.md"
UiMarker == "tailwind.config.js"
SetupPaths == {ConfigPath, InstructionsPath, MdcPath, RequiredDoc, ArchDoc, UiMarker}

\* Content of a path: none when no file is there; "old" is what a file held
\* before the command ran, "" what ensureFile creates.
NoFile == <<"absent">>
OldContent == <<"old">>
EmptyContent == <<>>
RuleContent == <<"# Rigour: Engineering Excellence Protocol">>
Frontmatter == <<"---", "description", "globs", "---">>

\* UNIVERSAL_CONFIG and the configuration of the ui template, as far as
\* initCommand reads them.
UniversalConfig == [preset |-> "universal", gates |-> [required_files |-> <<RequiredDoc, ArchDoc>>]]
UiConfig == [preset |-> "ui", gates |-> [required_files |-> <<RequiredDoc, ArchDoc>>]]

\* DiscoveryService.discover: a DiscoveryResult, the configuration under
\* its field config.
discover(dir) ==
    IF dir[UiMarker] # NoFile
    THEN [config |-> UiConfig, matches |-> [preset |-> "ui"]]
    ELSE [config |-> UniversalConfig, matches |-> [preset |-> "none"]]

\* obj.field of JavaScript: undefined when the object has no such property.
Undefined == [undefined |-> TRUE]
Get(obj, field) == IF field \in DOMAIN obj THEN obj[field] ELSE Undefined

\* fs.ensureFile for each required file that does not exist.
ensureFiles(dir, required) ==
    [p \in DOMAIN dir |->
       IF p \in Range(required) /\ dir[p] = NoFile THEN EmptyContent ELSE dir[p]]

\* initCommand(cwd) called on a directory.
SetupInit ==
    /\ setup \in { [pc |-> "discover", dir |-> d, before |-> d,
                    recommendedConfig |-> Undefined] :
                     d \in [SetupPaths -> {NoFile, OldContent}] }
    /\ pool = NoPool /\ other = NoOther /\ pipe = NoPipe
    /\ detector = NoDetector /\ loop = NoLoop
    /\ call = NoCall /\ result = Null

\* Lines 8-9
InitDiscover ==
    /\ setup.pc = "discover"
    /\ setup' = [setup EXCEPT !.recommendedConfig = discover(setup.dir), !.pc = "exists"]
    /\ UNCHANGED << ixvars, astvars, ovrvars, call, result, detector, loop,
                    pool, other, pipe >>

\* Lines 13-16: rigour.yml is there.
InitSkip ==
    /\ setup.pc = "exists"
    /\ setup.dir[ConfigPath] # NoFile
    /\ setup' = [setup EXCEPT !.pc = "returned"]
    /\ UNCHANGED << ixvars, astvars, ovrvars, call, result, detector, loop,
                    pool, other, pipe >>

\* Lines 13-19: rigour.yml is not there and is written.
InitWriteConfig ==
    /\ setup.pc = "exists"
    /\ setup.dir[ConfigPath] = NoFile
    /\ setup' = [setup EXCEPT
                   !.dir[ConfigPath] = <<"yaml", setup.recommendedConfig>>,
                   !.pc = "handshake"]
    /\ UNCHANGED << ixvars, astvars, ovrvars, call, result, detector, loop,
                    pool, other, pipe >>

\* Lines 22-83: the required files and the two handshake files. Reading
\* required_files of an undefined gates throws a TypeError, which nothing
\* catches.
InitHandshake ==
    /\ setup.pc = "handshake"
    /\ LET gates == Get(setup.recommendedConfig, "gates")
       IN  IF gates = Undefined
           THEN setup' = [setup EXCEPT !.pc = "thrown"]
           ELSE setup' =
                  [setup EXCEPT
                     !.dir = [ensureFiles(setup.dir, gates.required_files) EXCEPT
                                ![InstructionsPath] = RuleContent,
                                ![MdcPath] = Frontmatter \o RuleContent],
                     !.pc = "returned"]
    /\ UNCHANGED << ixvars, astvars, ovrvars, call, result, detector, loop,
                    pool, other, pipe >>

SetupNext ==
    \/ InitDiscover
    \/ InitSkip
    \/ InitWriteConfig
    \/ InitHandshake

\* --- The batch loops of buildIndex and updateIndex, task by task ---

\* Files that cannot be read in a run of the model.
BrokenSets == {{}, {2}, {NumFiles}}

\* The file whose records updateIndex takes over from existingIndex.
UnchangedPath == RichPath

\* Positions of the members of the batch that starts after position k.
BatchPositions(n, k) == (k + 1)..Min(k + BATCH_SIZE, n)

\* The record a per-file task extracts, and the one it takes over.
FreshRecord(p) == [file |-> p, embedding |-> NoEmbedding]
KeptRecord(p, had) ==
    [file |-> p, embedding |-> IF had THEN <<"vec", p>> ELSE NoEmbedding]

\* Mutant of collect: the results are appended last first.
collectReversed(batch, settled) ==
    LET n == Len(batch)
    IN  SelectSeq([k \in 1..n |-> settled[batch[n + 1 - k]]], LAMBDA r : r # Null)

\* results of Promise.all, in the order of the batch, without the nulls.
collect(batch, settled) ==
    SelectSeq([k \in 1..Len(batch) |-> settled[batch[k]]], LAMBDA r : r # Null)

\* buildIndex() or updateIndex(existingIndex) after findFiles.
PoolInit ==
    /\ \E m \in {"build", "update"} : \E emb \in BOOLEAN : \E had \in BOOLEAN :
       \E bad \in BrokenSets :
         /\ m = "build" => ~had
         /\ pool = [pc |-> "loop", mode |-> m, useEmbeddings |-> emb,
                    hadEmbedding |-> had, broken |-> bad,
                    files |-> [k \in 1..NumFiles |-> k], i |-> 0,
                    tasks |-> [p \in Paths |-> "none"],
                    settled |-> [p \in Paths |-> Null],
                    patterns |-> <<>>, indexedFiles |-> <<>>,
                    bodies |-> {}, writes |-> {}]
    /\ setup = NoSetup /\ other = NoOther /\ pipe = NoPipe
    /\ detector = NoDetector /\ loop = NoLoop
    /\ call = NoCall /\ result = Null

\* batch.map(async (file) => ...): every task of the batch starts.
StartBatch ==
    /\ pool.pc = "loop" /\ pool.i < Len(pool.files)
    /\ LET batch == Batch(pool.files, pool.i)
       IN  pool' = [pool EXCEPT
                      !.tasks = [p \in Paths |->
                                   IF p \in Range(batch) THEN "running" ELSE pool.tasks[p]],
                      !.pc = "await"]
    /\ UNCHANGED << ixvars, astvars, ovrvars, call, result, detector, loop,
                    setup, other, pipe >>

\* One per-file task completes: with its patterns and fileInfo, with null
\* (buildIndex catches), or rejected (updateIndex does not catch).
SettleTask(p) ==
    /\ pool.pc \in {"await", "thrown"}
    /\ pool.tasks[p] = "running"
    /\ pool' =
         IF p \in pool.broken
         THEN IF pool.mode = "build"
              THEN [pool EXCEPT !.tasks[p] = "fulfilled"]
              ELSE [pool EXCEPT !.tasks[p] = "rejected"]
         ELSE [pool EXCEPT
                 !.tasks[p] = "fulfilled",
                 !.settled[p] =
                    IF pool.mode = "update" /\ p = UnchangedPath
                    THEN KeptRecord(p, pool.hadEmbedding)
                    ELSE FreshRecord(p)]
    /\ UNCHANGED << ixvars, astvars, ovrvars, call, result, detector, loop,
                    setup, other, pipe >>

\* Promise.all resolves: every task of the batch is fulfilled; the
\* orchestrator appends the results (lines 86-91 / 167-170).
BatchResolved ==
    /\ pool.pc = "await"
    /\ LET batch == Batch(pool.files, pool.i)
           rs == collect(batch, pool.settled)
       IN  /\ \A p \in Range(batch) : pool.tasks[p] = "fulfilled"
           /\ pool' = [pool EXCEPT
                         !.patterns = pool.patterns \o rs,
                         !.indexedFiles = pool.indexedFiles \o [k \in 1..Len(rs) |-> rs[k].file],
                         !.i = pool.i + BATCH_SIZE,
                         !.pc = "loop"]
    /\ UNCHANGED << ixvars, astvars, ovrvars, call, result, detector, loop,
                    setup, other, pipe >>

\* Promise.all rejects with the first rejection: updateIndex throws while
\* the other tasks of the batch go on.
BatchRejected ==
    /\ pool.pc = "await"
    /\ \E p \in Range(Batch(pool.files, pool.i)) : pool.tasks[p] = "rejected"
    /\ pool' = [pool EXCEPT !.pc = "thrown"]
    /\ UNCHANGED << ixvars, astvars, ovrvars, call, result, detector, loop,
                    setup, other, pipe >>

\* The batch loop ends (lines 95-96 / 174-175).
PoolLoopExit ==
    /\ pool.pc = "loop" /\ pool.i >= Len(pool.files)
    /\ pool' = IF pool.useEmbeddings /\ Len(pool.patterns) > 0
               THEN [pool EXCEPT !.pc = "embed", !.i = 0]
               ELSE [pool EXCEPT !.pc = "returned"]
    /\ UNCHANGED << ixvars, astvars, ovrvars, call, result, detector, loop,
                    setup, other, pipe >>

\* batch.map(async (pattern) => ...): every body of the batch starts; a body
\* of updateIndex whose pattern has an embedding ends at once.
StartEmbedBatch ==
    /\ pool.pc = "embed" /\ pool.i < Len(pool.patterns)
    /\ pool' = [pool EXCEPT
                  !.bodies = { k \in BatchPositions(Len(pool.patterns), pool.i) :
                                 pool.mode = "build"
                                 \/ pool.patterns[k].embedding = NoEmbedding },
                  !.pc = "embedAwait"]
    /\ UNCHANGED << ixvars, astvars, ovrvars, call, result, detector, loop,
                    setup, other, pipe >>

\* generateEmbedding returns to one body, which assigns pattern.embedding.
SettleBody(k) ==
    /\ pool.pc = "embedAwait"
    /\ k \in pool.bodies
    /\ pool' = [pool EXCEPT
                  !.patterns[k].embedding = <<"vec", pool.patterns[k].file>>,
                  !.bodies = pool.bodies \ {k},
                  !.writes = pool.writes \cup
                               {[body |-> k, record |-> k,
                                 concurrent |-> pool.bodies # {k}]}]
    /\ UNCHANGED << ixvars, astvars, ovrvars, call, result, detector, loop,
                    setup, other, pipe >>

\* Promise.all of the embedding batch resolves.
EmbedResolved ==
    /\ pool.pc = "embedAwait"
    /\ pool.bodies = {}
    /\ pool' = [pool EXCEPT !.i = pool.i + BATCH_SIZE, !.pc = "embed"]
    /\ UNCHANGED << ixvars, astvars, ovrvars, call, result, detector, loop,
                    setup, other, pipe >>

\* The embedding loop ends.
PoolEmbedExit ==
    /\ pool.pc = "embed" /\ pool.i >= Len(pool.patterns)
    /\ pool' = [pool EXCEPT !.pc = "returned"]
    /\ UNCHANGED << ixvars, astvars, ovrvars, call, result, detector, loop,
                    setup, other, pipe >>

SettleSomeTask == pool.pc \in {"await", "thrown"} /\ \E p \in Paths : SettleTask(p)
SettleSomeBody == pool.pc = "embedAwait" /\ \E k \in Paths : SettleBody(k)

PoolNext ==
    \/ StartBatch
    \/ SettleSomeTask
    \/ BatchResolved
    \/ BatchRejected
    \/ PoolLoopExit
    \/ StartEmbedBatch
    \/ SettleSomeBody
    \/ EmbedResolved
    \/ PoolEmbedExit

\* --- A second OverrideManager of the same root directory ---

\* The pattern the second manager adds and removes.
OtherPattern == Bar

Manager(os) == [made |-> TRUE, overrides |-> os]

TwoInit ==
    /\ OvrInit
    /\ other = Manager(<<>>)
    /\ setup = NoSetup /\ pool = NoPool /\ pipe = NoPipe
    /\ detector = NoDetector /\ loop = NoLoop
    /\ call = NoCall /\ result = Null

\* load() of the second manager.
OtherLoad ==
    /\ ops < MaxOps
    /\ other' = Manager(IF ledger.exists THEN getActiveOverrides(ledger.overrides, now)
                        ELSE <<>>)
    /\ ops' = ops + 1
    /\ lastOp' = Op("load", <<>>, FALSE)
    /\ UNCHANGED << overrides, ledger, now, ticks >>
    /\ UNCHANGED << ixvars, astvars, call, result, detector, loop, setup, pool, pipe >>

\* addOverride({pattern}) of the second manager, save() included.
OtherAddOverride(pattern) ==
    /\ ops < MaxOps
    /\ LET fullOverride == Entry(pattern, now, getDefaultExpiration(now))
           kept == Append(withoutPattern(other.overrides, pattern), fullOverride)
       IN  /\ other' = Manager(kept)
           /\ ledger' = Stored(kept)
    /\ ops' = ops + 1
    /\ lastOp' = AddOp(pattern, withoutPattern(other.overrides, pattern) # other.overrides,
                       NoExpiry)
    /\ UNCHANGED << overrides, now, ticks >>
    /\ UNCHANGED << ixvars, astvars, call, result, detector, loop, setup, pool, pipe >>

\* removeOverride(pattern) of the second manager.
OtherRemoveOverride(pattern) ==
    /\ ops < MaxOps
    /\ LET kept == withoutPattern(other.overrides, pattern)
       IN  /\ other' = Manager(kept)
           /\ ledger' = (IF Len(kept) # Len(other.overrides) THEN Stored(kept) ELSE ledger)
    /\ ops' = ops + 1
    /\ lastOp' = Op("removeOverride", pattern,
                    withoutPattern(other.overrides, pattern) # other.overrides)
    /\ UNCHANGED << overrides, now, ticks >>
    /\ UNCHANGED << ixvars, astvars, call, result, detector, loop, setup, pool, pipe >>

TwoNext ==
    \/ Load
    \/ \E p \in OverridePatterns, x \in Lifetimes : AddOverride(p, x)
    \/ \E p \in OverridePatterns : RemoveOverride(p)
    \/ \E d \in {1, DEFAULT_EXPIRATION_DAYS} : Tick(d)
    \/ OtherLoad
    \/ OtherAddOverride(OtherPattern)
    \/ OtherRemoveOverride(OtherPattern)

\* --- The embedding pipeline (getPipeline / generateEmbedding) ---

MaxCallers == 3     \* generateEmbedding calls of one process

Callers == 1..MaxCallers

\* let embeddingPipeline = null; an instance is named by the number of the
\* pipeline() invocation that made it.
NoPipeline == 0

IdleCall == [pc |-> "idle", instance |-> NoPipeline]

PipeInit ==
    /\ pipe = [made |-> TRUE, embeddingPipeline |-> NoPipeline, loads |-> 0,
               calls |-> [c \in Callers |-> IdleCall]]
    /\ setup = NoSetup /\ pool = NoPool /\ other = NoOther
    /\ detector = NoDetector /\ loop = NoLoop
    /\ call = NoCall /\ result = Null

\* generateEmbedding(text) up to the first await of getPipeline: the
\* pipeline is returned if there is one, and pipeline(...) is invoked if not.
GetPipeline(c) ==
    /\ pipe.calls[c].pc = "idle"
    /\ pipe' = IF pipe.embeddingPipeline = NoPipeline
               THEN [pipe EXCEPT !.loads = pipe.loads + 1,
                                 !.calls[c] = [pc |-> "loading", instance |-> pipe.loads + 1]]
               ELSE [pipe EXCEPT !.calls[c] = [pc |-> "extract",
                                               instance |-> pipe.embeddingPipeline]]
    /\ UNCHANGED << ixvars, astvars, ovrvars, call, result, detector, loop,
                    setup, pool, other >>

\* pipeline(...) resolves: embeddingPipeline is assigned and returned.
PipelineLoaded(c) ==
    /\ pipe.calls[c].pc = "loading"
    /\ pipe' = [pipe EXCEPT !.embeddingPipeline = pipe.calls[c].instance,
                            !.calls[c].pc = "extract"]
    /\ UNCHANGED << ixvars, astvars, ovrvars, call, result, detector, loop,
                    setup, pool, other >>

\* pipeline(...) rejects: generateEmbedding catches and returns [].
PipelineFailed(c) ==
    /\ pipe.calls[c].pc = "loading"
    /\ pipe' = [pipe EXCEPT !.calls[c] = [pc |-> "returned", instance |-> NoPipeline]]
    /\ UNCHANGED << ixvars, astvars, ovrvars, call, result, detector, loop,
                    setup, pool, other >>

\* extractor(text, ...) resolves and the vector is returned.
Extract(c) ==
    /\ pipe.calls[c].pc = "extract"
    /\ pipe' = [pipe EXCEPT !.calls[c].pc = "returned"]
    /\ UNCHANGED << ixvars, astvars, ovrvars, call, result, detector, loop,
                    setup, pool, other >>

PipeNext ==
    \/ \E c \in Callers : GetPipeline(c)
    \/ \E c \in Callers : PipelineLoaded(c)
    \/ \E c \in Callers : PipelineFailed(c)
    \/ \E c \in Callers : Extract(c)

\* --- detectFunctionType ---

MaxPieces == 3      \* pieces a function name is put together from

LowerLetters == <<"a", "b", "c", "d", "e", "f", "g", "h", "i", "j", "k", "l", "m", "n", "o", "p", "q", "r", "s", "t", "u", "v", "w", "x", "y", "z">>
UpperLetters == <<"A", "B", "C", "D", "E", "F", "G", "H", "I", "J", "K", "L", "M", "N", "O", "P", "Q", "R", "S", "T", "U", "V", "W", "X", "Y", "Z">>

\* c.toUpperCase() of one character: a lower-case letter becomes its
\* upper-case letter, every other character is left as it is.
upperCase(c) ==
    IF \E k \in 1..26 : LowerLetters[k] = c
    THEN UpperLetters[CHOOSE k \in 1..26 : LowerLetters[k] = c]
    ELSE c

\* name.startsWith(w), name.includes(w)
startsWith(name, w) == Len(name) >= Len(w) /\ SubSeq(name, 1, Len(w)) = w
includes(name, w) ==
    \E k \in 0..(Len(name) - Len(w)) : SubSeq(name, k + 1, k + Len(w)) = w

\* The pieces of the function names of the model, and the names.
NamePieces ==
    { <<"u", "s", "e">>, <<"c", "r", "e", "a", "t", "e">>, <<"m", "a", "k", "e">>, <<"M", "i", "d", "d", "l", "e", "w", "a", "r", "e">>, <<"m", "i", "d", "d", "l", "e", "w", "a", "r", "e">>, <<"H", "a", "n", "d", "l", "e", "r">>, <<"h", "a", "n", "d", "l", "e", "r">>, <<"F", "a", "c", "t", "o", "r", "y">>, <<"A">>, <<"a">>, <<"_">>, <<"1">> }
FunctionNames ==
    { Flatten(ps) : ps \in Strings(NamePieces, 1, MaxPieces) }

\* detectFunctionType(name, node); jsx is containsJSX(node). Strings are
\* indexed from 0 in the code and from 1 here.
detectFunctionType(name, jsx) ==
    IF /\ startsWith(name, <<"u", "s", "e">>) /\ Len(name) > 3
       /\ name[4] = upperCase(name[4])
    THEN "hook"
    ELSE IF name[1] = upperCase(name[1]) /\ jsx THEN "component"
    ELSE IF includes(name, <<"M", "i", "d", "d", "l", "e", "w", "a", "r", "e">>) \/ includes(name, <<"m", "i", "d", "d", "l", "e", "w", "a", "r", "e">>)
    THEN "middleware"
    ELSE IF includes(name, <<"H", "a", "n", "d", "l", "e", "r">>) \/ includes(name, <<"h", "a", "n", "d", "l", "e", "r">>)
    THEN "handler"
    ELSE IF \/ startsWith(name, <<"c", "r", "e", "a", "t", "e">>) \/ startsWith(name, <<"m", "a", "k", "e">>)
            \/ includes(name, <<"F", "a", "c", "t", "o", "r", "y">>)
    THEN "factory"
    ELSE "function"

DetectInit == call = NoCall /\ result = Null /\ ExtParked

DetectFunctionType(name, jsx) ==
    /\ call = NoCall
    /\ call' = [fn |-> "detectFunctionType", name |-> name, jsx |-> jsx]
    /\ result' = detectFunctionType(name, jsx)
    /\ UNCHANGED << ixvars, astvars, ovrvars, detector, loop, morevars >>

DetectNext ==
    /\ call = NoCall
    /\ \E name \in FunctionNames, jsx \in BOOLEAN : DetectFunctionType(name, jsx)

(***************************************************************************)
(* ============================ Specifications =========================== *)
(***************************************************************************)

IxParked ==
    /\ disk = [p \in Paths |-> Absent] /\ edits = 0 /\ runs = 0 /\ pc = "idle"
    /\ mode = "build" /\ outcome = "none" /\ useEmbeddings = FALSE /\ files = <<>> /\ i = 0
    /\ patterns = <<>> /\ refs = <<>> /\ indexedFiles = <<>> /\ extracted = {}
    /\ existingIndex = NoIndex /\ priorIndex = NoIndex
    /\ priorDisk = [p \in Paths |-> Absent]
    /\ returned = NoIndex /\ returnedDisk = [p \in Paths |-> Absent]

\* The indexer alone: the gate and the override manager stay as constructed.
Init == IxInit /\ AstParked /\ OvrParked /\ CallParked
Spec == Init /\ [][IxNext]_vars

\* The indexer with failing embeddings.
SpecEmbed == Init /\ [][EmbedNext]_vars

\* The AST gate applied to one source file.
InitAst == AstInit /\ IxParked /\ OvrParked /\ CallParked
SpecAst == InitAst /\ [][AstNext]_vars

\* ASTGate.run over a project.
InitAstRun == AstRunInit /\ IxParked /\ OvrParked /\ CallParked
SpecAstRun == InitAstRun /\ [][AstRunNext]_vars

\* The override manager and its stored ledger.
InitOvr == OvrInit /\ IxParked /\ AstParked /\ CallParked
SpecOvr == InitOvr /\ [][OvrNext]_vars

\* detectFunctionType over the names of the model.
InitDetect == DetectInit /\ IxParked /\ AstParked /\ OvrParked
SpecDetect == InitDetect /\ [][DetectNext]_vars

\* Concurrent generateEmbedding calls of one process.
InitPipe == PipeInit /\ IxParked /\ AstParked /\ OvrParked
SpecPipe == InitPipe /\ [][PipeNext]_vars

\* Two managers of one root directory.
InitTwo == TwoInit /\ IxParked /\ AstParked
SpecTwo == InitTwo /\ [][TwoNext]_vars

\* isOverridden over the lists the manager can hold.
InitLookup == LookupInit /\ IxParked /\ AstParked /\ ExtParked
SpecLookup == InitLookup /\ [][LookupNext]_vars

\* isOverridden over patterns with "(".
InitSpecial == SpecialInit /\ IxParked /\ AstParked /\ ExtParked
SpecSpecial == InitSpecial /\ [][SpecialNext]_vars

\* parseInlineOverrides over the codes of the model.
InitInline == InlineInit /\ IxParked /\ AstParked /\ ExtParked
SpecInline == InitInline /\ [][InlineNext]_vars

\* extractPatterns over the source files of the model.
InitExtract == ExtractInit /\ IxParked /\ AstParked /\ ExtParked
SpecExtract == InitExtract /\ [][ExtractNext]_vars

\* The staleness detector over the manifests, rules and texts of the model.
InitStale == StaleInit /\ IxParked /\ AstParked /\ OvrParked /\ MoreParked
SpecStale == InitStale /\ [][StaleNext]_vars

\* runLoop; in SpecRunFair every command the loop awaits returns.
InitRun == RunInit /\ IxParked /\ AstParked /\ OvrParked /\ MoreParked
SpecRun == InitRun /\ [][RunNext]_vars
SpecRunFair == SpecRun /\ WF_vars(RunNext)

\* Full and incremental runs of one indexer without embeddings.
SpecAgree == Init /\ [][AgreeNext]_vars

\* The batch loops of the indexer with their tasks.
InitPool == PoolInit /\ IxParked /\ AstParked /\ OvrParked
SpecPool == InitPool /\ [][PoolNext]_vars

\* initCommand over the directories of the model.
InitSetup == SetupInit /\ IxParked /\ AstParked /\ OvrParked
SpecSetup == InitSetup /\ [][SetupNext]_vars

\* findFiles over the configurations and project trees of the model.
InitFind == FindInit /\ IxParked /\ AstParked /\ ExtParked
SpecFind == InitFind /\ [][FindNext]_vars

(***************************************************************************)
(* Properties of the indexer                                               *)
(***************************************************************************)

\* The Declaration Records and File Records a catalog holds for a path.
PatternsOfFile(ix, p) == SelectSeq(ix.patterns, LAMBDA r : r.file = p)
FileRecordsOf(ix, p) == SelectSeq(ix.files, LAMBDA f : f.path = p)

\* A run of updateIndex has just returned its catalog.
UpdateReturned == pc = "idle" /\ outcome = "returned" /\ mode = "update"
\* A run of either kind has just returned its catalog.
RunReturned == pc = "idle" /\ outcome = "returned"

\* The file at p, as the run that returned last read it, is readable and has
\* the content hash that the prior catalog records for p.
UnchangedSincePrior(p) ==
    /\ returnedDisk[p].exists /\ returnedDisk[p].readable
    /\ existingFile(priorIndex, p) # Null
    /\ existingFile(priorIndex, p).hash = hashContent(returnedDisk[p].content)

\* C1: after updateIndex(prior), every enumerated file whose content hash
\* equals the hash of prior's File Record has exactly prior's Declaration
\* Records in the returned catalog, unmodified in every field, keeps prior's
\* File Record, and extractPatterns was not invoked for it.
C1_ReuseUnmodified ==
    UpdateReturned =>
      \A p \in Range(files) :
        UnchangedSincePrior(p) =>
          /\ PatternsOfFile(returned, p) = PatternsOfFile(priorIndex, p)
          /\ FileRecordsOf(returned, p) = FileRecordsOf(priorIndex, p)
          /\ p \notin extracted

\* C2: in buildIndex and in updateIndex, when reading or extracting one file
\* fails the run still returns a catalog; the failed file contributes no
\* record and every other file contributes its records.
C2_FailureIsolated ==
    /\ outcome # "thrown"
    /\ RunReturned =>
         \A p \in Range(files) :
           IF returnedDisk[p].readable
           THEN /\ Len(FileRecordsOf(returned, p)) = 1
                /\ Len(PatternsOfFile(returned, p)) = Len(returnedDisk[p].content)
           ELSE /\ FileRecordsOf(returned, p) = <<>>
                /\ PatternsOfFile(returned, p) = <<>>

\* The declarations of the multi-declaration file whose text differs between
\* the run that built the prior catalog and the run that returned last.
ChangedDecls ==
    { k \in 1..Len(returnedDisk[RichPath].content) :
        returnedDisk[RichPath].content[k] # priorDisk[RichPath].content[k] }

\* updateIndex has returned, and since the prior catalog was built the text of
\* exactly one declaration of the multi-declaration file was edited.
OneDeclEdited ==
    /\ UpdateReturned
    /\ priorDisk[RichPath].exists /\ returnedDisk[RichPath].exists
    /\ Len(priorDisk[RichPath].content) = Len(returnedDisk[RichPath].content)
    /\ \A k \in 1..Len(returnedDisk[RichPath].content) :
         returnedDisk[RichPath].content[k].name = priorDisk[RichPath].content[k].name
    /\ Cardinality(ChangedDecls) = 1

OldEntry(k) == PatternsOfFile(priorIndex, RichPath)[k]
NewEntry(k) == PatternsOfFile(returned, RichPath)[k]

\* Declaration k starts at another line than when the prior catalog was built.
Shifted(k) ==
    StartLine(returnedDisk[RichPath].content, k) # StartLine(priorDisk[RichPath].content, k)

C4_GoneFilesDropped ==
    UpdateReturned =>
      /\ \A k \in 1..Len(returned.patterns) : returned.patterns[k].file \in Range(files)
      /\ \A k \in 1..Len(returned.files) : returned.files[k].path \in Range(files)

\* updateIndex returned after a file that the prior catalog holds records of
\* was deleted.
C4_Witness ==
    /\ UpdateReturned
    /\ \E p \in Paths :
         /\ p \notin Range(files)
         /\ FileRecordsOf(priorIndex, p) # <<>>
         /\ PatternsOfFile(priorIndex, p) # <<>>

\* A Declaration Record without its timestamp, and a File Record likewise.
Untimed(r) == [f \in DOMAIN r \ {"indexedAt"} |-> r[f]]
UntimedAll(rs) == [k \in 1..Len(rs) |-> Untimed(rs[k])]

\* What buildIndex() returns over the files d, all of them readable.
builtPatterns(d) ==
    LET fs == SortedSeq({ p \in Paths : d[p].exists })
    IN  Flatten([k \in 1..Len(fs) |-> extractPatterns(fs[k], d[fs[k]].content, 0)])
builtFiles(d) ==
    LET fs == SortedSeq({ p \in Paths : d[p].exists })
    IN  [k \in 1..Len(fs) |->
           fileInfo(fs[k], d[fs[k]].content, Len(d[fs[k]].content), 0)]

C25_ArgumentUnmodified ==
    mode = "update" => existingIndex = priorIndex

(***************************************************************************)
(* ASTGate: what one analysis reported.                                    *)
(***************************************************************************)

Analyzed == astPc = "analyzed"
FunctionAnalyzed == Analyzed /\ shape.file = "function"
ClassAnalyzed == Analyzed /\ shape.file = "class"

ParameterFailures == SelectSeq(failures, LAMBDA f : f.details[1] = "parameters")
ComplexityFailures == SelectSeq(failures, LAMBDA f : f.details[1] = "complexity")
MethodFailures == SelectSeq(failures, LAMBDA f : f.details[1] = "methods")
FailuresNaming(fs, name) == SelectSeq(fs, LAMBDA f : f.details[2] = name)

\* The threshold the configuration asks for: the configured value, the
\* documented default when none is configured.
Threshold(c, default) == IF c.set THEN c.value ELSE default

\* The branch points in the body of the function of a shape.
BodyBranches(sh) == IF sh.item \in BranchItems THEN sh.n ELSE 0

\* The forms the gate recognises as functions.
GateForms == {"FunctionDeclaration", "MethodDeclaration", "ArrowFunction", "ArrowArgument"}

\* C5: a function the gate analyzes whose body holds exactly N branch points,
\* and no nested function, has complexity N + 1, and a complexity violation is
\* emitted exactly when N + 1 exceeds the configured threshold (10 when none
\* is configured).
C5_ComplexityIsBranchesPlusOne ==
    (FunctionAnalyzed /\ shape.form \in GateForms /\ shape.inner = NoInner) =>
        /\ complexityOf(FunctionOf(shape)) = BodyBranches(shape) + 1
        /\ (ComplexityFailures # <<>>)
             <=> (BodyBranches(shape) + 1 > Threshold(astConfig.complexity, 10))

\* The branch points in the body of the nested function of a shape.
InnerBranches(sh) == IF sh.inner.item \in BranchItems THEN sh.inner.n ELSE 0

\* The complexities the complexity violations report, in the order emitted.
ReportedComplexities ==
    [k \in 1..Len(ComplexityFailures) |-> ComplexityFailures[k].metrics.complexity]

\* C29: for a function f with a nested function g, f's complexity is 1 + the
\* branch points of f outside g + those inside g, g is analyzed as a unit of
\* its own with 1 + its own branch points, and each of the two values that
\* exceeds the configured threshold (10 when none is configured) yields a
\* complexity violation: two when both do.
C29_NestedCountsTowardsBoth ==
    (FunctionAnalyzed /\ shape.inner # NoInner) =>
        LET T == Threshold(astConfig.complexity, 10)
            cf == 1 + BodyBranches(shape) + InnerBranches(shape)
            cg == 1 + InnerBranches(shape)
        IN  ReportedComplexities
              = (IF cf > T THEN <<cf>> ELSE <<>>) \o (IF cg > T THEN <<cg>> ELSE <<>>)

\* C6: an analyzed function with p parameters yields a parameter-count
\* violation exactly when p exceeds the configured threshold T (5 when none
\* is configured), with metrics {count: p, max: T}; six parameters and no
\* branches under the default configuration yield exactly one violation, with
\* metrics {count: 6, max: 5}.
C6_ParameterViolationIffOverThreshold ==
    (FunctionAnalyzed /\ shape.form \in GateForms /\ shape.inner = NoInner) =>
        LET T == Threshold(astConfig.max_params, 5)
        IN  /\ (ParameterFailures # <<>>) <=> (shape.np > T)
            /\ \A k \in DOMAIN ParameterFailures :
                 ParameterFailures[k].metrics = [count |-> shape.np, max |-> T]
            /\ (astConfig = DefaultAstConfig /\ shape.np = 6 /\ BodyBranches(shape) = 0
                /\ ~shape.init)
                 => /\ Len(failures) = 1
                    /\ failures[1].metrics = [count |-> 6, max |-> 5]

\* C7: for a configured max_methods threshold T and a class whose members are
\* trivial methods: T methods give no violation, T + 1 methods give exactly one,
\* which names the class and carries the method count and T.
C7_MethodThresholdBoundary ==
    (ClassAnalyzed /\ ~shape.extra /\ astConfig.max_methods.set) =>
        LET T == astConfig.max_methods.value
            name == IF shape.named THEN ClassName ELSE <<"Anonymous Class">>
        IN  /\ shape.m = T => failures = <<>>
            /\ shape.m = T + 1 =>
                 /\ Len(failures) = 1
                 /\ failures[1].details[2] = name
                 /\ failures[1].metrics = [methodCount |-> T + 1, max |-> T]

\* The forms C8 lists: a named function declaration, a class method, an arrow
\* function assigned to a name, a function expression assigned to a name.
NamedForms == {"FunctionDeclaration", "MethodDeclaration", "ArrowFunction", "FunctionExpression"}

\* C8: whatever its form, a function that exceeds the parameter threshold or
\* the complexity threshold produces a violation reported under its declared
\* name or the name of the binding it is assigned to.
C8_EveryFormAnalyzed ==
    (FunctionAnalyzed /\ shape.form \in NamedForms /\ shape.inner = NoInner /\ ~shape.init) =>
        /\ shape.np > maxParams(astConfig)
             => FailuresNaming(ParameterFailures, FnName) # <<>>
        /\ BodyBranches(shape) + 1 > maxComplexity(astConfig)
             => FailuresNaming(ComplexityFailures, FnName) # <<>>

(***************************************************************************)
(* ASTGate.run: what a run over a project returned.                        *)
(***************************************************************************)

RunEnded == astPc \in {"returned", "thrown"}

\* The violations of the files of the project that can be processed, in order.
RECURSIVE ViolationsOfOthers(_)
ViolationsOfOthers(k) ==
    IF k = 0 THEN <<>>
    ELSE ViolationsOfOthers(k - 1)
           \o (IF project[k].readable
               THEN analyzeSourceFile(createSourceFile(project[k].shape), k, astConfig, <<>>)
               ELSE <<>>)

\* C9: a file that cannot be processed does not abort the run: the run returns
\* the violations of all other files, none for the failed file, and processes
\* no file twice.
C9_RunSurvivesFailedFile ==
    RunEnded =>
        /\ astPc = "returned"
        /\ failures = ViolationsOfOthers(Len(project))
        /\ \A a, b \in DOMAIN reads : reads[a] = reads[b] => a = b

(***************************************************************************)
(* OverrideManager: expired entries.                                       *)
(***************************************************************************)

\* The entry's expiry timestamp is in the past.
InThePast(o) == o.expiresAt # NoExpiry /\ o.expiresAt[1] < now

StoredEntries == Range(ledger.overrides)

\* Neither isOverridden nor getActiveOverrides() returns an entry whose expiry
\* timestamp is in the past.
ExpiredNeverReturned ==
    /\ \A name \in Names :
         LET r == isOverridden(overrides, name, now) IN r # Null => ~InThePast(r)
    /\ \A o \in Range(getActiveOverrides(overrides, now)) : ~InThePast(o)

\* An expired entry of the stored ledger leaves it in this step.
LeavesLedger(o) == o \in StoredEntries /\ InThePast(o) /\ o \notin Range(ledger'.overrides)

\* C10 as stated: an expired entry is never returned by isOverridden nor by
\* getActiveOverrides(), and no operation but cleanupExpired removes it from
\* the stored ledger.
C10_ExpiredStaysUntilCleanup ==
    /\ []ExpiredNeverReturned
    /\ [][\A o \in StoredEntries : LeavesLedger(o) => lastOp'.op = "cleanupExpired"]_vars

\* C10, amended: an expired entry is never returned by isOverridden nor by
\* getActiveOverrides(); it leaves the stored ledger only by cleanupExpired, by
\* addOverride or removeOverride of its own pattern, or by the save of an
\* addOverride or removeOverride made while this.overrides does not hold it
\* (load() drops expired entries from this.overrides).
C10_ExpiredLeavesBySaveOnly ==
    /\ []ExpiredNeverReturned
    /\ [][\A o \in StoredEntries :
            LeavesLedger(o) =>
              \/ lastOp'.op = "cleanupExpired"
              \/ /\ lastOp'.op \in {"addOverride", "removeOverride"}
                 /\ lastOp'.pattern = o.pattern \/ o \notin Range(overrides)]_vars

\* An addOverride of another pattern saved after an entry had expired: the
\* expired entry is still held in memory and in the stored ledger, and neither
\* a lookup of its name nor getActiveOverrides() returns it.
C10_Witness ==
    /\ lastOp.op = "addOverride"
    /\ \E o, q \in StoredEntries :
         /\ InThePast(o)
         /\ o \in Range(overrides)
         /\ o.pattern = Foo
         /\ q.pattern = lastOp.pattern
         /\ q.pattern # o.pattern
         /\ q.createdAt > o.expiresAt[1]
         /\ isOverridden(overrides, Foo, now) # o
         /\ o \notin Range(getActiveOverrides(overrides, now))

\* An entry the first manager added in this behaviour.
AddedHere(o) == o.pattern \in OverridePatterns /\ o.createdAt >= StartDay

\* C26: an override added by addOverride(p) on one manager stays in the
\* persisted ledger until removeOverride(p), a later addOverride(p), or its
\* expiry, also when a second manager of the same root directory loads the
\* ledger and adds or removes other patterns in between.
C26_NoOverrideLost ==
    [][\A o \in StoredEntries :
         (AddedHere(o) /\ ~isExpired(o, now') /\ o \notin Range(ledger'.overrides)) =>
           /\ lastOp'.op \in {"addOverride", "removeOverride"}
           /\ lastOp'.pattern = o.pattern]_vars

(***************************************************************************)
(* OverrideManager: one entry per pattern.                                 *)
(***************************************************************************)

WithPattern(os, pattern) == SelectSeq(os, LAMBDA o : o.pattern = pattern)
NoDuplicates(os) == \A a, b \in DOMAIN os : os[a].pattern = os[b].pattern => a = b

\* This step is a call of the operation named.
Called(name) == ops' # ops /\ lastOp'.op = name

\* C11: no two entries of the ledger, in memory or as saved, have the same
\* pattern; after addOverride(e) the only entry with e's pattern is the entry
\* just added, the entries of other patterns are unchanged, and what is saved
\* is what is held.
C11_OneEntryPerPattern ==
    /\ [](NoDuplicates(overrides) /\ NoDuplicates(ledger.overrides))
    /\ [][Called("addOverride") =>
            LET p == lastOp'.pattern
                added == overrides'[Len(overrides')]
            IN  /\ WithPattern(overrides', p) = <<added>>
                /\ added.createdAt = now
                /\ SelectSeq(overrides', LAMBDA o : o.pattern # p)
                     = SelectSeq(overrides, LAMBDA o : o.pattern # p)
                /\ ledger' = Stored(overrides')]_vars

\* addOverride has just replaced the entry of a pattern, beside an entry of
\* another pattern.
C11_Witness ==
    /\ lastOp.op = "addOverride" /\ lastOp.held
    /\ Len(overrides) >= 2
    /\ overrides[Len(overrides)].pattern = lastOp.pattern
    /\ overrides[Len(overrides)].createdAt = now
    /\ ledger = Stored(overrides)

(***************************************************************************)
(* OverrideManager: lookups.                                               *)
(***************************************************************************)

\* The pattern, read as a glob, matches the whole name: each '*' stands for
\* any run of characters, every other character for itself.
RECURSIVE GlobMatches(_, _)
GlobMatches(p, n) ==
    IF p = <<>> THEN n = <<>>
    ELSE IF Head(p) = "*"
         THEN GlobMatches(Tail(p), n) \/ (n # <<>> /\ GlobMatches(p, Tail(n)))
         ELSE n # <<>> /\ Head(p) = Head(n) /\ GlobMatches(Tail(p), Tail(n))

\* The entry covers the name: it is not expired, and its pattern equals the
\* name or is a glob that matches it.
Covers(o, name) ==
    /\ ~InThePast(o)
    /\ o.pattern = name \/ (includesStar(o.pattern) /\ GlobMatches(o.pattern, name))

LookedUp == call.fn = "isOverridden"

\* C12: isOverridden(name) returns the first entry, in ledger order, that is
\* not expired and whose pattern equals the name or matches it as a glob, and
\* null when there is none (so "a*" covers "ab" and "a$" but not "ba").
C12_FirstCoveringEntry ==
    LookedUp =>
        LET covering == SelectSeq(overrides, LAMBDA o : Covers(o, call.name))
        IN  result = IF covering = <<>> THEN Null ELSE Head(covering)

\* C28: isOverridden never raises: for every name and every list of entries,
\* patterns with "*" next to "(" included, it returns null or an entry of the
\* list, and an entry it returns covers the name with every character of
\* its pattern but "*" standing for itself.
C28_LookupNeverRaises ==
    LookedUp =>
      /\ result # SyntaxError
      /\ result = Null \/ (result \in Range(overrides) /\ Covers(result, call.name))

(***************************************************************************)
(* OverrideManager: default expiration.                                    *)
(***************************************************************************)

\* The entry is active: getActiveOverrides() returns it.
Active(o) == o \in Range(getActiveOverrides(overrides, now))

\* C13 as stated: addOverride without expiresAt stores expiresAt = creation time + 30
\* days, and an entry without expiresAt is no longer active once 30 days have
\* passed since its createdAt.
C13_ThirtyDaysByDefault ==
    /\ [][(Called("addOverride") /\ lastOp'.expiresAt = NoExpiry) =>
            LET added == overrides'[Len(overrides')]
            IN  added.expiresAt = At(added.createdAt + 30)]_vars
    /\ [](\A o \in Range(overrides) :
            (o.expiresAt = NoExpiry /\ now > o.createdAt + 30) => ~Active(o))

\* C13, amended: addOverride without expiresAt stores expiresAt = creation
\* time + 30 days; an entry that has no expiresAt (one written into the stored
\* ledger without it) never expires: it stays active whatever its age.
C13_DefaultOnAddOnly ==
    /\ [][(Called("addOverride") /\ lastOp'.expiresAt = NoExpiry) =>
            LET added == overrides'[Len(overrides')]
            IN  added.expiresAt = At(added.createdAt + 30)]_vars
    /\ [](\A o \in Range(overrides) : o.expiresAt = NoExpiry => Active(o))

\* addOverride was just called without expiresAt and stored creation time + 30
\* days, while an entry without expiresAt, older than 30 days, is still active.
C13_Witness ==
    /\ lastOp.op = "addOverride" /\ lastOp.expiresAt = NoExpiry
    /\ overrides[Len(overrides)].expiresAt = At(now + 30)
    /\ \E o \in Range(overrides) :
         o.expiresAt = NoExpiry /\ now > o.createdAt + 30 /\ Active(o)

(***************************************************************************)
(* OverrideManager: inline overrides.                                      *)
(***************************************************************************)

Parsed == call.fn = "parseInlineOverrides"

\* The line carries the marker followed by a pattern name.
Annotated(sh) == sh.marker /\ sh.name > 0

\* What an annotated line announces: its pattern name, the reason in its
\* parenthesis if it has one, and its origin file:line.
Announced(sh, pos) ==
    [pattern |-> [k \in 1..sh.name |-> "n"],
     reason |-> IF sh.paren = "reason" THEN ReasonText
                ELSE <<"Inline override in", call.file, pos>>,
     createdAt |-> now,
     approvedBy |-> <<"inline", call.file, pos>>]

RECURSIVE AnnouncedUpTo(_)
AnnouncedUpTo(pos) ==
    IF pos = 0 THEN <<>>
    ELSE AnnouncedUpTo(pos - 1)
           \o (IF Annotated(call.code[pos]) THEN <<Announced(call.code[pos], pos)>> ELSE <<>>)

\* No line carries the marker without a pattern name after it.
WellFormed == \A pos \in DOMAIN call.code : call.code[pos].marker => call.code[pos].name > 0

\* C14: parseInlineOverrides returns one override per line carrying the
\* marker, with the pattern name, the optional parenthesized reason and the
\* origin file:line (lines counted from 1), and leaves the ledger as it was,
\* in memory and on disk.
C14_OneOverridePerAnnotatedLine ==
    /\ [](Parsed /\ WellFormed => result = AnnouncedUpTo(Len(call.code)))
    /\ [][call' # call => UNCHANGED << overrides, ledger >>]_vars

(***************************************************************************)
(* PatternIndexer: statistics of the catalog.                              *)
(***************************************************************************)

\* stats.byType[k], a type that does not occur counting as 0.
ByType(stats, k) == IF k \in DOMAIN stats.byType THEN stats.byType[k] ELSE 0

RecordsOfType(ix, k) == SelectSeq(ix.patterns, LAMBDA r : r.type = k)

\* C17: in every catalog returned by buildIndex or updateIndex totalPatterns is
\* the number of Declaration Records, totalFiles the number of File Records,
\* byType[k] the number of records of kind k; each path has at most one File
\* Record, exactly one if it has records, and the patternCount of a File
\* Record is the number of Declaration Records of its path.
C17_StatsAgreeWithCatalog ==
    RunReturned =>
      /\ returned.stats.totalPatterns = Len(returned.patterns)
      /\ returned.stats.totalFiles = Len(returned.files)
      /\ \A k \in PatternTypes :
           ByType(returned.stats, k) = Len(RecordsOfType(returned, k))
      /\ \A k \in DOMAIN returned.stats.byType : k \in PatternTypes
      /\ \A p \in Paths :
           /\ Len(FileRecordsOf(returned, p)) <= 1
           /\ PatternsOfFile(returned, p) # <<>> => Len(FileRecordsOf(returned, p)) = 1
      /\ \A n \in DOMAIN returned.files :
           returned.files[n].patternCount
             = Len(PatternsOfFile(returned, returned.files[n].path))

\* updateIndex returned a catalog of several files, one of them with two
\* declarations of different kinds, part of it reused from the prior catalog.
C17_Witness ==
    /\ UpdateReturned
    /\ Len(returned.files) >= 2
    /\ returned.stats.totalPatterns > returned.stats.totalFiles
    /\ DOMAIN returned.stats.byType = PatternTypes
    /\ \E n \in DOMAIN returned.files : returned.files[n].patternCount = 2
    /\ \E p \in Range(files) : UnchangedSincePrior(p)
    /\ \E p \in Range(files) : ~UnchangedSincePrior(p)

(***************************************************************************)
(* PatternIndexer: embeddings.                                             *)
(***************************************************************************)

\* The positions of the patterns the embedding batch at hand works on.
EmbedPositions == (i + 1)..Min(i + BATCH_SIZE, Len(patterns))

\* The step is one batch of the embedding loop.
EmbedStep == pc = "embed" /\ i' > i

\* Outcome of the step on the pattern at position k, when the embeddings of
\* the names in bad fail: the empty vector for those, its own vector for
\* the others, what it had if the loop passes it over.
EmbeddingAfter(k, bad) ==
    IF mode = "update" /\ patterns[k].embedding # NoEmbedding THEN patterns[k].embedding
    ELSE IF patterns[k].name \in bad THEN <<>>
    ELSE <<"vec", <<patterns[k].name>>>>

\* C18: with embeddings enabled a failing embedding never aborts buildIndex or
\* updateIndex: the run stays in its loop or goes on to the statistics, every
\* pattern is kept, the failed ones with an empty vector, every other one with
\* its own embedding; with embeddings disabled the embedding loop is never
\* entered.
C18_EmbeddingFailureContained ==
    /\ [][EmbedStep =>
            /\ pc' = "embed" /\ outcome' = outcome
            /\ Len(patterns') = Len(patterns)
            /\ \E bad \in FailureSets :
                 \A k \in DOMAIN patterns :
                   patterns'[k] =
                     IF k \in EmbedPositions
                     THEN [patterns[k] EXCEPT !.embedding = EmbeddingAfter(k, bad)]
                     ELSE patterns[k]]_vars
    /\ [][pc = "embed" /\ pc' # "embed" => pc' = "stats"]_vars
    /\ [](pc = "embed" => useEmbeddings)
    /\ [](RunReturned /\ ~useEmbeddings /\ mode = "build" =>
            \A k \in DOMAIN returned.patterns : returned.patterns[k].embedding = NoEmbedding)

\* A run with embeddings enabled returned a catalog in which one pattern has
\* the empty vector and another its own embedding.
C18_Witness ==
    /\ RunReturned /\ useEmbeddings
    /\ \E k \in DOMAIN returned.patterns : returned.patterns[k].embedding = <<>>
    /\ \E k \in DOMAIN returned.patterns :
         returned.patterns[k].embedding = <<"vec", <<returned.patterns[k].name>>>>

(***************************************************************************)
(* PatternIndexer: extraction.                                             *)
(***************************************************************************)

Extracted == call.fn = "extractPatterns"

\* The records the declarations of a top-level statement call for: one per
\* recognized declaration whose name is long enough, bindings each their own.
RECURSIVE RecognizedBindings(_, _)
RecognizedBindings(node, upTo) ==
    IF upTo = 0 THEN <<>>
    ELSE LET decl == node.declarations[upTo]
         IN  RecognizedBindings(node, upTo - 1)
               \o (IF Len(decl.name) < 2 THEN <<>>
                   ELSE IF decl.initializer \in {"ArrowFunction", "FunctionExpression"}
                        THEN <<[type |-> "function", name |-> decl.name]>>
                   ELSE IF /\ decl.initializer \in {"StringLiteral", "NumericLiteral",
                                                    "ObjectLiteralExpression"}
                           /\ node.const /\ decl.name = UpperName
                        THEN <<[type |-> "constant", name |-> decl.name]>>
                   ELSE <<>>)

Recognized(node) ==
    CASE node.kind = "VariableStatement" -> RecognizedBindings(node, Len(node.declarations))
      [] node.kind = "ExpressionStatement" -> <<>>
      [] OTHER ->
           IF Len(node.name) < 2 THEN <<>>
           ELSE <<[type |-> CASE node.kind = "FunctionDeclaration" -> "function"
                              [] node.kind = "ClassDeclaration" -> "class"
                              [] node.kind = "InterfaceDeclaration" -> "interface"
                              [] node.kind = "TypeAliasDeclaration" -> "type"
                              [] node.kind = "EnumDeclaration" -> "enum",
                    name |-> node.name]>>

RECURSIVE RecognizedUpTo(_, _)
RecognizedUpTo(stmts, upTo) ==
    IF upTo = 0 THEN <<>>
    ELSE RecognizedUpTo(stmts, upTo - 1) \o Recognized(stmts[upTo])

\* C15: extractPatterns yields exactly one record for each recognized
\* top-level declaration whose name has at least minNameLength characters and
\* none for anything else: none for declarations nested in function or class
\* bodies, and one for each binding of a statement declaring several names.
C15_OneRecordPerTopLevelDeclaration ==
    Extracted => result = RecognizedUpTo(call.sourceFile, Len(call.sourceFile))

(***************************************************************************)
(* PatternIndexer: files indexed.                                          *)
(***************************************************************************)

Found == call.fn = "findFiles"

StandardDirs == {"node_modules", "dist", "build", ".git", "coverage"}

UnderStandardDir(f) == \E k \in DOMAIN f.dirs : f.dirs[k] \in StandardDirs

ExclusionWins ==
    \A f \in result : ~\E g \in excludePatterns(call.config) : globMatch(g, f)

\* C16: under every configuration, also one with its own include or exclude
\* list, no file matching an active exclude glob is indexed, even if it
\* matches an include glob, and no file under node_modules, dist, build, .git
\* or coverage is indexed.
C16_ExcludedNeverIndexed ==
    Found => /\ ExclusionWins
             /\ \A f \in result : ~UnderStandardDir(f)

(***************************************************************************)
(* StalenessDetector.                                                      *)
(***************************************************************************)

Scanned == call.fn = "checkStaleness"

\* The issues that name the pattern at line n of the text scanned.
IssuesAt(pattern, n) ==
    { k \in DOMAIN result.issues :
        result.issues[k].pattern = pattern /\ result.issues[k].line = n }

\* The rule has an issue at line n of the text scanned.
Fired(rule, n) == IssuesAt(rule.pattern, n) # {}

Declared(library) == library \in detector.projectVersions

\* The rules with the pattern that are to fire: those that name no library
\* or a declared one.
DueRules(pattern) ==
    { r \in DOMAIN detector.deprecations :
        /\ detector.deprecations[r].pattern = pattern
        /\ detector.deprecations[r].library # NoLibrary =>
             Declared(detector.deprecations[r].library) }

\* C19: a rule that names an owning library produces an issue on matching
\* text only if the manifest declares that library, and then it does; a rule
\* that names no library produces an issue on matching text whatever the
\* manifest declares. Every line thus has, for the word it holds, one issue
\* per rule that is to fire, and no other issue.
C19_RuleFiresIffLibraryDeclared ==
    Scanned =>
      \A n \in DOMAIN call.text : \A w \in Words :
        Cardinality(IssuesAt(w, n))
          = IF call.text[n] = w THEN Cardinality(DueRules(w)) ELSE 0

\* A scan in which the rule owned by react fired, react being declared, and an
\* added rule owned by express did not fire on matching text, express not
\* being declared.
C19_Witness ==
    /\ Scanned
    /\ Declared("react") /\ ~Declared("express")
    /\ \E n \in DOMAIN call.text : Fired(DEPRECATIONS[1], n)
    /\ \E r \in DOMAIN detector.deprecations :
         /\ detector.deprecations[r].library = "express"
         /\ \E n \in DOMAIN call.text :
              /\ call.text[n] = detector.deprecations[r].pattern
              /\ ~Fired(detector.deprecations[r], n)
    /\ result.status = "DEPRECATED"

(***************************************************************************)
(* runLoop.                                                                *)
(***************************************************************************)

Returned == loop.pc = "returned"
Exited == loop.pc = "exited"

\* The largest number of iterations the option allows.
Allowed == IF loop.option.nan \/ loop.option.value < 1 THEN 3 ELSE loop.option.value

OverLimit == loop.changed > (IF loop.limit # 0 THEN loop.limit ELSE 10)

SetupEnded == setup.pc \in {"returned", "thrown"}
HadConfig == setup.before["rigour.yml"] # NoFile

\* C21: initCommand on a directory without rigour.yml completes without error
\* and leaves rigour.yml, docs/AGENT_INSTRUCTIONS.md and
\* .cursor/rules/rigour.mdc in place, the .mdc file being the frontmatter
\* followed by the content of AGENT_INSTRUCTIONS.md; on a directory with
\* rigour.yml it writes no file.
C21_InitCreatesHandshake ==
    SetupEnded =>
      IF HadConfig
      THEN setup.pc = "returned" /\ setup.dir = setup.before
      ELSE /\ setup.pc = "returned"
           /\ \A p \in {"rigour.yml", "docs/AGENT_INSTRUCTIONS.md",
                        ".cursor/rules/rigour.mdc"} : setup.dir[p] # NoFile
           /\ setup.dir[".cursor/rules/rigour.mdc"]
                = Frontmatter \o setup.dir["docs/AGENT_INSTRUCTIONS.md"]

(***************************************************************************)
(* The batches of the indexer.                                             *)
(***************************************************************************)

InFlight == { p \in Paths : pool.tasks[p] = "running" }
Started == { p \in Paths : pool.tasks[p] # "none" }
BatchOf(p) == (p - 1) \div 10

\* C22: at most 10 per-file tasks are in flight, all of one batch, and no
\* task of a later batch has started while a task of an earlier batch is
\* still running; the tasks start in consecutive batches in enumeration
\* order.
C22_BatchesRunOneAfterAnother ==
    /\ Cardinality(InFlight) <= 10
    /\ \A p \in InFlight : \A q \in Started : BatchOf(q) <= BatchOf(p)
    /\ \A p \in Started : \A q \in Paths : q < p => q \in Started

C22_Witness ==
    /\ pool.pc = "await" /\ pool.i = 10
    /\ InFlight # {}
    /\ \A p \in 1..10 : pool.tasks[p] = "fulfilled"

\* The records follow the enumeration order of the files.
InEnumerationOrder ==
    /\ Len(pool.patterns) = Len(pool.indexedFiles)
    /\ \A k \in 1..Len(pool.indexedFiles) :
         /\ pool.patterns[k].file = pool.indexedFiles[k]
         /\ \A m \in 1..Len(pool.indexedFiles) :
              k < m => pool.indexedFiles[k] < pool.indexedFiles[m]

\* What is in the result collections was appended after its whole batch
\* had resolved.
AppendedAfterBatch ==
    \A k \in 1..Len(pool.indexedFiles) : \A q \in Paths :
       BatchOf(q) = BatchOf(pool.indexedFiles[k]) => pool.tasks[q] = "fulfilled"

\* C23 as stated: no concurrently running body writes to the result
\* collections or to a record placed in them, and the records follow the
\* enumeration order.
C23_OnlyOrchestratorWrites ==
    /\ pool.writes = {}
    /\ AppendedAfterBatch
    /\ InEnumerationOrder

\* C23 amended: the result collections are appended to only by the
\* orchestrator, after the whole batch has resolved; a per-pattern body
\* writes the embedding of its own record and nothing else; the records
\* follow the enumeration order.
C23_BodiesWriteOwnEmbeddingOnly ==
    /\ \A w \in pool.writes : w.body = w.record /\ w.record \in 1..Len(pool.patterns)
    /\ AppendedAfterBatch
    /\ InEnumerationOrder

C23_Witness ==
    /\ pool.pc = "returned"
    /\ Len(pool.indexedFiles) >= 10
    /\ \E w \in pool.writes : w.concurrent

(***************************************************************************)
(* The embedding pipeline.                                                 *)
(***************************************************************************)

\* The instances the calls have used.
InstancesUsed == { pipe.calls[c].instance : c \in Callers } \ {NoPipeline}

\* C27: the model-loading function is invoked at most once per process,
\* however many generateEmbedding calls start concurrently, and every call
\* uses the same pipeline instance.
C27_PipelineInitializedOnce ==
    /\ pipe.loads <= 1
    /\ Cardinality(InstancesUsed) <= 1

(***************************************************************************)
(* detectFunctionType.                                                     *)
(***************************************************************************)

Detected == call.fn = "detectFunctionType"
IsUpperLetter(c) == \E k \in 1..26 : UpperLetters[k] = c

\* The kind the rules name for a function: the first rule that applies.
KindByRule(name, jsx) ==
    CASE startsWith(name, <<"u", "s", "e">>) /\ Len(name) > 3 /\ IsUpperLetter(name[4]) -> "hook"
      [] OTHER ->
    CASE IsUpperLetter(name[1]) /\ jsx -> "component"
      [] OTHER ->
    CASE includes(name, <<"M", "i", "d", "d", "l", "e", "w", "a", "r", "e">>) \/ includes(name, <<"m", "i", "d", "d", "l", "e", "w", "a", "r", "e">>) -> "middleware"
      [] OTHER ->
    CASE includes(name, <<"H", "a", "n", "d", "l", "e", "r">>) \/ includes(name, <<"h", "a", "n", "d", "l", "e", "r">>) -> "handler"
      [] OTHER ->
    CASE \/ startsWith(name, <<"c", "r", "e", "a", "t", "e">>) \/ startsWith(name, <<"m", "a", "k", "e">>)
         \/ includes(name, <<"F", "a", "c", "t", "o", "r", "y">>) -> "factory"
      [] OTHER -> "function"

\* C30: detectFunctionType returns the kind of the first rule that applies, in
\* the order hook (the name is "use" followed by an upper-case letter),
\* component (the name starts with an upper-case letter and the body holds
\* JSX), middleware, handler, factory, function.
C30_FirstApplicableRule ==
    Detected => result = KindByRule(call.name, call.jsx)

====
